---- MODULE Spec2Model ----
(***************************************************************************)
(* Session lifecycle and event ingestion of the Instagram client.          *)
(*                                                                         *)
(* Two Client classes live in the repository:                              *)
(*   "combined"  src/unnamed/part_001  (client/Client.js, Upgraded)        *)
(*   "lib1"      src/unnamed/part_000  (Client.js, Lib 1 + Lib 2 login)    *)
(* The variable `variant` says which class was constructed; every action   *)
(* is the code of one handler of that class between two suspension points  *)
(* (JavaScript runs a handler to its next await without interleaving).     *)
(***************************************************************************)
EXTENDS Integers, Sequences, FiniteSets, TLC

\* ------------------------------------------------------------------ bounds
MaxEvents == 3            \* inbound transport events delivered in one run
MaxCapacity == 2          \* largest options.maxProcessedMessageIds tried
MaxCalls == 4             \* isNewMessageById calls in the dedup specification
MaxCookies == 2           \* longest cookie list in the cookie file
MaxUserCalls == 3         \* _patchOrCreateUser calls in the user specification
MaxRequests == 3          \* approve / decline calls in the request specification
MaxTimers == 3            \* setInterval calls in the teardown specification
MaxChatObjects == 3       \* Chat objects built in the chat operation specification

\* ------------------------------------------------------------- value sets
None == "undefined"                       \* a missing field
MsgIds == {"m1", "m2", "m3"}              \* item_id values
ThreadIds == {"t1", "t2"}                 \* thread_id values
UserIds == {"7"}                          \* numeric user ids of other accounts
SelfId == "1"                             \* the logged-in account's id
NoObj == 0                                \* a key that is not in a Collection
NoTimer == 0                              \* a null interval handle
Falsy(x) == x \in {None, ""}              \* JavaScript !x on a string field

VARIABLES
  variant,                 \* which Client class this instance is
  ready,                   \* this.ready
  eventsToReplay,          \* this.eventsToReplay
  processedMessageIds,     \* this.processedMessageIds (Set, insertion order)
  maxProcessedMessageIds,  \* this.options.maxProcessedMessageIds
  loginPc,                 \* where login() is suspended
  loginSuccess,            \* the local loginSuccess of attemptLogin / login
  loginError,              \* why login() rejected, "none" while it has not
  handlersRegistered,      \* registerRealtimeHandlers has run
  sessionFile,             \* the session file on disk
  cookiesFile,             \* the cookie file on disk
  cookiesAccepted,         \* the platform accepts the cookie credential
  cookieJar,               \* this.ig.state.cookieJar
  fsLog,                   \* file operations performed, in order
  rt,                      \* realtime transport
  fbns,                    \* push (FBNS) transport
  logoutPc,                \* where logout() / disconnect() is suspended
  emitted,                 \* application events emitted by the client
  nEvents,                 \* inbound events delivered so far
  buffered,                \* history: every entry ever appended to the buffer
  replayed,                \* history: entries the replay loop has visited
  dedupLog,                \* history: isNewMessageById calls and results
  chats,                   \* this.cache.chats: thread id -> chat object
  pendingChats,            \* this.cache.pendingChats
  messages,                \* this.cache.messages: item id -> message object
  users,                   \* this.cache.users: user id -> user object
  chatHeap,                \* every Chat object constructed, by object number
  msgHeap,                 \* every Message object constructed
  userHeap,                \* every User object constructed
  msgTasks,                \* processMessage calls suspended in fetchChat
  fbnsTasks,               \* handleFbnsReceive calls suspended in fetchUser
  messageRequestsMonitorInterval,  \* this.messageRequestsMonitorInterval
  activeIntervals,         \* timers set by setInterval and not yet cleared
  timerSeq,                \* timers created so far
  pollTasks,               \* monitor callbacks suspended in getMessageRequests
  requestTasks,            \* approve / decline calls suspended in the request
  requestLog,              \* history: approve / decline calls that returned
  userLog,                 \* history: _patchOrCreateUser calls and results
  handlerRejections,       \* message handler promises that rejected
  channelLog               \* history: realtime events emitted, [channel, data]

vars == << variant, ready, eventsToReplay, processedMessageIds,
           maxProcessedMessageIds, loginPc, loginSuccess, loginError,
           handlersRegistered,
           sessionFile, cookiesFile, cookiesAccepted, cookieJar, fsLog, rt,
           fbns, logoutPc, emitted, nEvents, buffered, replayed, dedupLog,
           chats, pendingChats, messages, users, chatHeap, msgHeap, userHeap,
           msgTasks, fbnsTasks, messageRequestsMonitorInterval,
           activeIntervals, timerSeq, pollTasks, requestTasks, requestLog,
           userLog, handlerRejections, channelLog >>

\* ------------------------------------------------------------ environment
SessionStates == {"absent", "malformed", "rejected", "valid"}
CookieRecs == { [name |-> "sessionid", domain |-> ".instagram.com"],
                [name |-> "csrftoken", domain |-> "instagram.com"],
                [name |-> "mid", domain |-> None] }

RECURSIVE SeqsUpTo(_, _)
SeqsUpTo(S, n) ==
  IF n = 0 THEN {<<>>}
  ELSE LET shorter == SeqsUpTo(S, n - 1)
       IN shorter \cup {Append(q, x) : q \in {r \in shorter : Len(r) = n - 1}, x \in S}

CookieFiles ==
  {[kind |-> "absent", recs |-> <<>>], [kind |-> "malformed", recs |-> <<>>]}
  \cup {[kind |-> "list", recs |-> l] : l \in SeqsUpTo(CookieRecs, MaxCookies)}

InSeq(x, q) == \E i \in 1..Len(q) : q[i] = x

Emit(name, arg) == [name |-> name, arg |-> arg]
FsOp(op, path) == [op |-> op, path |-> path]

\* ------------------------------------------------------------ dedup window
\* isNewMessageById without the has() test: every call reports new
isNewMessageById_noHas(ids, max, messageId) ==
  IF Falsy(messageId) THEN [ret |-> TRUE, ids |-> ids]
  ELSE LET added == IF InSeq(messageId, ids) THEN ids
                    ELSE Append(ids, messageId)
       IN [ret |-> TRUE,
           ids |-> IF Len(added) > max THEN Tail(added) ELSE added]

\* isNewMessageById without the eviction
isNewMessageById_noEvict(ids, max, messageId) ==
  IF Falsy(messageId) THEN [ret |-> TRUE, ids |-> ids]
  ELSE IF InSeq(messageId, ids) THEN [ret |-> FALSE, ids |-> ids]
  ELSE [ret |-> TRUE, ids |-> Append(ids, messageId)]

\* isNewMessageById that refreshes a re-seen identifier (delete, then add)
isNewMessageById_lru(ids, max, messageId) ==
  IF Falsy(messageId) THEN [ret |-> TRUE, ids |-> ids]
  ELSE IF InSeq(messageId, ids)
    THEN [ret |-> FALSE,
          ids |-> Append(SelectSeq(ids, LAMBDA x : x # messageId), messageId)]
  ELSE LET added == Append(ids, messageId)
       IN [ret |-> TRUE,
           ids |-> IF Len(added) > max THEN Tail(added) ELSE added]

\* isNewMessageById without the missing-identifier test
isNewMessageById_noGuard(ids, max, messageId) ==
  IF InSeq(messageId, ids) THEN [ret |-> FALSE, ids |-> ids]
  ELSE LET added == Append(ids, messageId)
       IN [ret |-> TRUE,
           ids |-> IF Len(added) > max THEN Tail(added) ELSE added]

\* isNewMessageById(messageId) on window ids with capacity max:
\* the returned flag and the window afterwards.
isNewMessageById(ids, max, messageId) ==
  IF Falsy(messageId) THEN [ret |-> TRUE, ids |-> ids]
  ELSE IF InSeq(messageId, ids) THEN [ret |-> FALSE, ids |-> ids]
  ELSE LET added == Append(ids, messageId)
       IN [ret |-> TRUE,
           ids |-> IF Len(added) > max THEN Tail(added) ELSE added]

\* one entry of the call history: the identifier, the result, and the
\* window before and after the call
Call(id, ret, before, after) ==
  [id |-> id, ret |-> ret, before |-> before, after |-> after]

\* --------------------------------------------------------------- cookies
\* cookie.domain.replace(/^\./, '')
StripDot(d) == IF d = ".instagram.com" THEN "instagram.com" ELSE d

\* the for loop of loadCookiesFromJson: a record whose domain is missing is
\* skipped with a warning, every other record is installed in list order
RECURSIVE installCookies(_, _)
installCookies(recs, jar) ==
  IF recs = <<>> THEN jar
  ELSE LET c == Head(recs)
           domain == IF Falsy(c.domain) THEN None ELSE StripDot(c.domain)
       IN installCookies(Tail(recs),
            IF ~Falsy(domain)
              THEN Append(jar, [name |-> c.name, domain |-> domain])
              ELSE jar)

\* loadCookiesFromJson(path): readFile and JSON.parse throw on an absent or
\* malformed file and the catch rethrows
loadCookiesFromJson(file, jar) ==
  IF file.kind # "list" THEN [threw |-> TRUE, jar |-> jar]
  ELSE [threw |-> FALSE, jar |-> installCookies(file.recs, jar)]

\* the for loop of lib1's _loadCookies: cookie.domain.replace throws a
\* TypeError on a record without domain, which ends the loop
RECURSIVE installCookiesLib1(_, _)
installCookiesLib1(recs, jar) ==
  IF recs = <<>> THEN [threw |-> FALSE, jar |-> jar]
  ELSE LET c == Head(recs)
       IN IF c.domain = None THEN [threw |-> TRUE, jar |-> jar]
          ELSE installCookiesLib1(Tail(recs),
                 Append(jar, [name |-> c.name, domain |-> StripDot(c.domain)]))

\* lib1's _loadCookies: an absent file returns early, any error is caught
\* and reported as an 'error' event and never thrown
loadCookiesLib1(file, jar) ==
  IF file.kind = "absent" THEN [threw |-> FALSE, jar |-> jar]
  ELSE IF file.kind = "malformed" THEN [threw |-> TRUE, jar |-> jar]
  ELSE installCookiesLib1(file.recs, jar)

\* the platform's "who am I" round trip (ig.account.currentUser) on a
\* cookie-derived session: it needs the installed session cookie
validateCookies(jar) ==
  cookiesAccepted /\ \E i \in 1..Len(jar) : jar[i].name = "sessionid"

\* ============================================================== login ====
\* Variables no login step before the connect touches.
pipelineVars == << ready, eventsToReplay, processedMessageIds, rt, fbns,
                   logoutPc, nEvents, buffered, replayed, dedupLog,
                   msgTasks, fbnsTasks >>
chatVars == << chats, pendingChats, chatHeap >>
cacheVars == << chats, pendingChats, messages, users, chatHeap, msgHeap,
                userHeap >>
configVars == << variant, maxProcessedMessageIds, cookiesAccepted >>
monitorVars == << messageRequestsMonitorInterval, activeIntervals, timerSeq,
                  pollTasks >>
requestVars == << requestTasks, requestLog >>
extVars == << monitorVars, requestVars, userLog >>

\* login() up to the first await of attemptLogin: the API client is built.
login ==
  /\ loginPc = "idle"
  /\ loginPc' = "session"
  /\ UNCHANGED << loginSuccess, loginError, handlersRegistered, sessionFile,
                  cookiesFile, cookieJar, fsLog, emitted >>
  /\ UNCHANGED pipelineVars
  /\ UNCHANGED cacheVars
  /\ UNCHANGED configVars
  /\ UNCHANGED handlerRejections
  /\ UNCHANGED channelLog
  /\ UNCHANGED extVars

\* attemptLogin without the `if (!loginSuccess)` around the cookie step
attemptLogin_session_noGuard ==
  /\ variant = "combined"
  /\ loginPc = "session"
  /\ fsLog' = fsLog \o <<FsOp("access", "session")>>
                    \o (IF sessionFile = "absent" THEN <<>>
                        ELSE <<FsOp("read", "session")>>)
  /\ loginSuccess' = (sessionFile = "valid")
  /\ loginPc' = "cookies"
  /\ UNCHANGED << loginError, handlersRegistered, sessionFile, cookiesFile,
                  cookieJar, emitted >>
  /\ UNCHANGED pipelineVars
  /\ UNCHANGED cacheVars
  /\ UNCHANGED configVars
  /\ UNCHANGED handlerRejections
  /\ UNCHANGED channelLog
  /\ UNCHANGED extVars

\* attemptLogin that sets loginSuccess only after the session file is
\* written, so that a failing write makes the cookie step fail
attemptLogin_cookies_lateSuccess ==
  /\ variant = "combined"
  /\ loginPc = "cookies"
  /\ LET r == loadCookiesFromJson(cookiesFile, cookieJar)
     IN /\ cookieJar' = r.jar
        /\ \E written \in BOOLEAN :
             /\ loginSuccess' = (~r.threw /\ validateCookies(r.jar) /\ written)
             /\ loginPc' = IF loginSuccess' THEN "userinfo" ELSE "rejected"
             /\ loginError' = IF loginSuccess' THEN loginError
                              ELSE "noValidLogin"
             /\ sessionFile' = IF loginSuccess' THEN "written" ELSE sessionFile
             /\ fsLog' = fsLog \o <<FsOp("read", "cookies")>>
                               \o (IF loginSuccess'
                                     THEN <<FsOp("write", "session")>>
                                     ELSE <<>>)
  /\ UNCHANGED << handlersRegistered, cookiesFile, emitted >>
  /\ UNCHANGED pipelineVars
  /\ UNCHANGED cacheVars
  /\ UNCHANGED configVars
  /\ UNCHANGED handlerRejections
  /\ UNCHANGED channelLog
  /\ UNCHANGED extVars

\* login() that does not test what attemptLogin returned
attemptLogin_cookies_noReject ==
  /\ variant = "combined"
  /\ loginPc = "cookies"
  /\ LET r == loadCookiesFromJson(cookiesFile, cookieJar)
     IN /\ cookieJar' = r.jar
        /\ loginSuccess' = (~r.threw /\ validateCookies(r.jar))
        /\ loginPc' = "userinfo"
        /\ UNCHANGED loginError
        /\ sessionFile' = IF loginSuccess' THEN "written" ELSE sessionFile
        /\ fsLog' = fsLog \o <<FsOp("read", "cookies")>>
                          \o (IF loginSuccess'
                                THEN <<FsOp("write", "session")>>
                                ELSE <<>>)
  /\ UNCHANGED << handlersRegistered, cookiesFile, emitted >>
  /\ UNCHANGED pipelineVars
  /\ UNCHANGED cacheVars
  /\ UNCHANGED configVars
  /\ UNCHANGED handlerRejections
  /\ UNCHANGED channelLog
  /\ UNCHANGED extVars

\* login() that goes on to the user info whatever the session step found
attemptLogin_session_noThrow ==
  /\ variant = "combined"
  /\ loginPc = "session"
  /\ fsLog' = fsLog \o <<FsOp("access", "session")>>
                    \o (IF sessionFile = "absent" THEN <<>>
                        ELSE <<FsOp("read", "session")>>)
  /\ loginSuccess' = (sessionFile = "valid")
  /\ loginPc' = "userinfo"
  /\ UNCHANGED << loginError, handlersRegistered, sessionFile, cookiesFile,
                  cookieJar, emitted >>
  /\ UNCHANGED pipelineVars
  /\ UNCHANGED cacheVars
  /\ UNCHANGED configVars
  /\ UNCHANGED handlerRejections
  /\ UNCHANGED channelLog
  /\ UNCHANGED extVars

\* attemptLogin, step 1: fs.access, readFile + JSON.parse, deserialize and
\* currentUser; any exception falls through to the cookies.
attemptLogin_session ==
  /\ variant = "combined"
  /\ loginPc = "session"
  /\ fsLog' = fsLog \o <<FsOp("access", "session")>>
                    \o (IF sessionFile = "absent" THEN <<>>
                        ELSE <<FsOp("read", "session")>>)
  /\ IF sessionFile = "valid"
       THEN loginSuccess' = TRUE /\ loginPc' = "userinfo"
       ELSE loginSuccess' = FALSE /\ loginPc' = "cookies"
  /\ UNCHANGED << loginError, handlersRegistered, sessionFile, cookiesFile,
                  cookieJar, emitted >>
  /\ UNCHANGED pipelineVars
  /\ UNCHANGED cacheVars
  /\ UNCHANGED configVars
  /\ UNCHANGED handlerRejections
  /\ UNCHANGED channelLog
  /\ UNCHANGED extVars

\* attemptLogin, step 2 and 3: load the cookies, validate, and on success
\* serialize and write the session file.  loginSuccess is set before the
\* write, and a failing write is caught by the same catch.  A false return
\* makes login() throw at once.
attemptLogin_cookies ==
  /\ variant = "combined"
  /\ loginPc = "cookies"
  /\ LET r == loadCookiesFromJson(cookiesFile, cookieJar)
     IN /\ cookieJar' = r.jar
        /\ IF r.threw \/ ~validateCookies(r.jar)
             THEN /\ loginSuccess' = FALSE
                  /\ loginPc' = "rejected"
                  /\ loginError' = "noValidLogin"
                  /\ fsLog' = Append(fsLog, FsOp("read", "cookies"))
                  /\ UNCHANGED sessionFile
             ELSE \E written \in BOOLEAN :
                  /\ loginSuccess' = TRUE
                  /\ loginPc' = "userinfo"
                  /\ UNCHANGED loginError
                  /\ sessionFile' = IF written THEN "written" ELSE sessionFile
                  /\ fsLog' = fsLog \o <<FsOp("read", "cookies")>>
                                    \o (IF written
                                          THEN <<FsOp("write", "session")>>
                                          ELSE <<FsOp("writeFailed",
                                                      "session")>>)
  /\ UNCHANGED << handlersRegistered, cookiesFile, emitted >>
  /\ UNCHANGED pipelineVars
  /\ UNCHANGED cacheVars
  /\ UNCHANGED configVars
  /\ UNCHANGED handlerRejections
  /\ UNCHANGED channelLog
  /\ UNCHANGED extVars

\* ---------------------------------------------------------- entity cache
NoMessages == [m \in MsgIds |-> NoObj]

\* new Chat(client, threadId, data): the thread's id, its pending flag and
\* an empty nested message Collection
NewChat(threadId, data) ==
  [id |-> threadId, pending |-> data.pending, messages |-> NoMessages]

\* new ClientUser(client, {...response, ...userData})
NewClientUser == [id |-> SelfId, username |-> "self", full_name |-> "Self"]

\* threads.forEach of login's chat cache pre-population: every thread gets
\* a new Chat that is set in cache.chats, and also in cache.pendingChats
\* when it is pending.  st = [chats, pendingChats, chatHeap].
RECURSIVE prepopulate(_, _)
prepopulate(threads, st) ==
  IF threads = <<>> THEN st
  ELSE LET thread == Head(threads)
           heap == Append(st.chatHeap, NewChat(thread.thread_id, thread))
           chat == Len(heap)
       IN prepopulate(Tail(threads),
            [chats |-> [st.chats EXCEPT ![thread.thread_id] = chat],
             pendingChats |->
               IF heap[chat].pending
                 THEN [st.pendingChats EXCEPT ![thread.thread_id] = chat]
                 ELSE st.pendingChats,
             chatHeap |-> heap])

\* login(), after attemptLogin returned true: usernameinfo and info, then
\* the client user is cached; a failure is logged and rethrown.
\* lib1 emits 'error' before it rethrows and saves the session next.
login_userinfo ==
  /\ loginPc = "userinfo"
  /\ \E ok \in BOOLEAN :
       IF ok
         THEN /\ userHeap' = Append(userHeap, NewClientUser)
              /\ users' = [users EXCEPT ![SelfId] = Len(userHeap) + 1]
              /\ loginPc' = IF variant = "combined" THEN "prepop" ELSE "save"
              /\ UNCHANGED << loginError, emitted >>
         ELSE /\ UNCHANGED << users, userHeap >>
              /\ loginPc' = "rejected"
              /\ loginError' = "userInfo"
              /\ emitted' = IF variant = "lib1"
                              THEN Append(emitted, Emit("error", "userInfo"))
                              ELSE emitted
  /\ UNCHANGED << loginSuccess, handlersRegistered, sessionFile, cookiesFile,
                  cookieJar, fsLog, messages, msgHeap >>
  /\ UNCHANGED chatVars
  /\ UNCHANGED pipelineVars
  /\ UNCHANGED configVars
  /\ UNCHANGED handlerRejections
  /\ UNCHANGED channelLog
  /\ UNCHANGED extVars

\* login(): pre-populate the chat cache from the inbox and pending feeds
\* (fetched = FALSE: a feed threw, which is logged and ignored), register
\* the handlers, and suspend in the inbox request for irisData.
login_prepopulate(fetched, threads) ==
  /\ variant = "combined"
  /\ loginPc = "prepop"
  /\ LET st == IF fetched
                 THEN prepopulate(threads, [chats |-> chats,
                                            pendingChats |-> pendingChats,
                                            chatHeap |-> chatHeap])
                 ELSE [chats |-> chats, pendingChats |-> pendingChats,
                       chatHeap |-> chatHeap]
     IN /\ chats' = st.chats
        /\ pendingChats' = st.pendingChats
        /\ chatHeap' = st.chatHeap
  /\ handlersRegistered' = TRUE
  /\ loginPc' = "iris"
  /\ UNCHANGED << loginSuccess, loginError, sessionFile, cookiesFile,
                  cookieJar, fsLog, emitted, messages, users, msgHeap,
                  userHeap >>
  /\ UNCHANGED pipelineVars
  /\ UNCHANGED configVars
  /\ UNCHANGED handlerRejections
  /\ UNCHANGED channelLog
  /\ UNCHANGED extVars

\* login(): the irisData request returned (or threw, which rejects login;
\* lib1 reports it as a connect error first).  On success Promise.all starts
\* the realtime and the FBNS connect; lib1 connects the realtime only.
login_iris ==
  /\ loginPc = "iris"
  /\ \E ok \in BOOLEAN :
       IF ok
         THEN /\ loginPc' = "connecting"
              /\ rt' = "connecting"
              /\ fbns' = IF variant = "combined" THEN "connecting" ELSE fbns
              /\ UNCHANGED << loginError, emitted >>
         ELSE /\ loginPc' = "rejected"
              /\ loginError' = "iris"
              /\ emitted' = IF variant = "lib1"
                              THEN Append(emitted, Emit("error", "connect"))
                              ELSE emitted
              /\ UNCHANGED << rt, fbns >>
  /\ UNCHANGED << ready, eventsToReplay, processedMessageIds, logoutPc,
                  nEvents, buffered, replayed, dedupLog, msgTasks, fbnsTasks >>
  /\ UNCHANGED << loginSuccess, handlersRegistered, sessionFile, cookiesFile,
                  cookieJar, fsLog >>
  /\ UNCHANGED cacheVars
  /\ UNCHANGED configVars
  /\ UNCHANGED handlerRejections
  /\ UNCHANGED channelLog
  /\ UNCHANGED extVars

\* ------------------------------------------------------- message entities
\* Timestamps are counted in units of 10^6 of the raw number, so that the
\* microsecond scale of the present fits the model checker's integers.
Threshold == 1000000      \* 1e12
Grace == 10               \* 10000000
Now == 1790000            \* Date.now(), milliseconds

\* Util.isMessageValid(message)
isMessageValid(message) ==
  LET timestampMs == IF message.timestamp > Threshold
                       THEN message.timestamp \div 1000
                       ELSE message.timestamp
  IN (timestampMs + Grace) > Now

\* new Message(client, threadId, data)
NewMessage(threadId, data) ==
  [id |-> data.item_id, chatID |-> threadId, authorID |-> data.user_id,
   timestamp |-> data.timestamp]

\* message._patch(data): the fields of the payload overwrite the entity's
PatchMessage(message, data) ==
  [message EXCEPT !.authorID = data.user_id, !.timestamp = data.timestamp]

\* a processMessage that caches a message only when it passes the age filter
upsertMessage_skipStale(st, chat, threadId, data) ==
  LET existing == st.chatHeap[chat].messages[data.item_id]
      isNew == existing = NoObj
      message == IF isNew THEN Len(st.msgHeap) + 1 ELSE existing
      heap == IF isNew
                THEN Append(st.msgHeap, NewMessage(threadId, data))
                ELSE [st.msgHeap EXCEPT
                        ![existing] = PatchMessage(st.msgHeap[existing], data)]
  IN IF isMessageValid(heap[message])
       THEN [chatHeap |-> IF isNew
                            THEN [st.chatHeap EXCEPT
                                    ![chat].messages[data.item_id] = message]
                            ELSE st.chatHeap,
             msgHeap |-> heap,
             messages |-> IF isNew
                            THEN [st.messages EXCEPT ![data.item_id] = message]
                            ELSE st.messages,
             emits |-> Append(st.emits, Emit("messageCreate", message))]
       ELSE st

\* processMessage from "Create or update the Message object" to its end,
\* for the chat object `chat`: the message is patched when the chat's nested
\* cache has its id, and otherwise constructed and set in the nested and in
\* the global cache; messageCreate is emitted when isMessageValid.
\* st = [chatHeap, msgHeap, messages, emits].
upsertMessage(st, chat, threadId, data) ==
  LET existing == st.chatHeap[chat].messages[data.item_id]
      isNew == existing = NoObj
      message == IF isNew THEN Len(st.msgHeap) + 1 ELSE existing
      heap == IF isNew
                THEN Append(st.msgHeap, NewMessage(threadId, data))
                ELSE [st.msgHeap EXCEPT
                        ![existing] = PatchMessage(st.msgHeap[existing], data)]
  IN [chatHeap |-> IF isNew
                     THEN [st.chatHeap EXCEPT
                             ![chat].messages[data.item_id] = message]
                     ELSE st.chatHeap,
      msgHeap |-> heap,
      messages |-> IF isNew
                     THEN [st.messages EXCEPT ![data.item_id] = message]
                     ELSE st.messages,
      emits |-> IF isMessageValid(heap[message])
                  THEN Append(st.emits, Emit("messageCreate", message))
                  ELSE st.emits]

\* An inbound message event: data.message is <<payload>>, or <<>> when the
\* event carries no message; data.thread is the event's thread id or None.
payloadOf(data) == data.message[1]

\* eventData.thread?.thread_id || messagePayload.thread_id
threadIdOf(data) ==
  IF ~Falsy(data.thread) THEN data.thread ELSE payloadOf(data).thread_id

\* handleMessageWrapper's routing without the isNewMessageById test
messageRoute_noDedup(data, ids, max, chatCache) ==
  IF data.message = <<>> THEN "nopayload"
  ELSE IF Falsy(payloadOf(data).user_id) \/ Falsy(payloadOf(data).item_id)
    THEN "invalid"
  ELSE IF Falsy(threadIdOf(data)) THEN "nothread"
  ELSE IF chatCache[threadIdOf(data)] # NoObj THEN "cached"
  ELSE "fetch"

\* what handleMessageWrapper does with an event, before any state changes:
\*   "nopayload"  data.message is missing
\*   "duplicate"  isNewMessageById returned false
\*   "invalid"    processMessage found user_id or item_id missing
\*   "nothread"   no thread id in the event or the payload
\*   "cached"     the chat is in cache.chats: processed synchronously
\*   "fetch"      processMessage suspends in fetchChat
messageRoute(data, ids, max, chatCache) ==
  IF data.message = <<>> THEN "nopayload"
  ELSE IF ~isNewMessageById(ids, max, payloadOf(data).item_id).ret
    THEN "duplicate"
  ELSE IF Falsy(payloadOf(data).user_id) \/ Falsy(payloadOf(data).item_id)
    THEN "invalid"
  ELSE IF Falsy(threadIdOf(data)) THEN "nothread"
  ELSE IF chatCache[threadIdOf(data)] # NoObj THEN "cached"
  ELSE "fetch"

\* ------------------------------------------------------------ push router
\* new User(client, data) and user._patch(data): fields of the payload
\* overwrite, fields it lacks are kept
NewUser(data) ==
  [id |-> data.pk, username |-> data.username, full_name |-> data.full_name]
PatchUser(user, data) ==
  [user EXCEPT
     !.username = IF data.username = None THEN @ ELSE data.username,
     !.full_name = IF data.full_name = None THEN @ ELSE data.full_name]

\* an upsert that constructs a new User on every call
patchOrCreateUser_alwaysNew(st, userID, userPayload) ==
  [users |-> [st.users EXCEPT ![userID] = Len(st.userHeap) + 1],
   userHeap |-> Append(st.userHeap, NewUser(userPayload))]

\* _patchOrCreateUser(userID, userPayload).  st = [users, userHeap].
patchOrCreateUser(st, userID, userPayload) ==
  IF st.users[userID] # NoObj
    THEN [users |-> st.users,
          userHeap |-> [st.userHeap EXCEPT ![st.users[userID]] =
                          PatchUser(st.userHeap[st.users[userID]], userPayload)]]
    ELSE [users |-> [st.users EXCEPT ![userID] = Len(st.userHeap) + 1],
          userHeap |-> Append(st.userHeap, NewUser(userPayload))]

\* the application event handleFbnsReceive emits once the user is resolved
pushEventName(data) ==
  IF data.pushCategory = "new_follower" THEN "newFollower" ELSE "followRequest"
needsUser(data) ==
  data.pushCategory \in {"new_follower", "private_user_follow_request"}

\* handleFbnsReceive whose last branch is an else: every category that is
\* not a new follower or a pending conversation is routed as a follow request
handleFbnsReceive_elseFollow(data, userCache) ==
  IF data.pushCategory # "direct_v2_pending"
    THEN IF userCache[data.sourceUserId] # NoObj
           THEN [sync |-> <<>>,
                 micro |-> <<Emit(pushEventName(data),
                                  userCache[data.sourceUserId])>>,
                 tasks |-> <<>>]
           ELSE [sync |-> <<>>, micro |-> <<>>, tasks |-> <<data>>]
    ELSE [sync |-> <<Emit("pendingRequestNotification", data)>>,
          micro |-> <<>>, tasks |-> <<>>]

\* handleFbnsReceive(data), up to its first network suspension.  fetchUser
\* returns a cached user without I/O, so the event is emitted in the
\* microtasks that follow the caller ("micro"); direct_v2_pending is emitted
\* before handleFbnsReceive returns ("sync"); an uncached user suspends the
\* handler in ig.user.info ("tasks").  Other categories do nothing.
handleFbnsReceive(data, userCache) ==
  IF needsUser(data)
    THEN IF userCache[data.sourceUserId] # NoObj
           THEN [sync |-> <<>>,
                 micro |-> <<Emit(pushEventName(data),
                                  userCache[data.sourceUserId])>>,
                 tasks |-> <<>>]
           ELSE [sync |-> <<>>, micro |-> <<>>, tasks |-> <<data>>]
    ELSE IF data.pushCategory = "direct_v2_pending"
      THEN [sync |-> <<Emit("pendingRequestNotification", data)>>,
            micro |-> <<>>, tasks |-> <<>>]
      ELSE [sync |-> <<>>, micro |-> <<>>, tasks |-> <<>>]

\* ------------------------------------------------------------ replay loop
\* One buffered entry is [tag, arg]: ['realtime', topic, payload] and
\* ['fbns', data] in the combined client, [eventName, data] in lib1.
Entry(tag, arg) == [tag |-> tag, arg |-> arg]

\* eventsToReplay.forEach of the combined login(): a realtime entry is
\* handed to parseInboxUpdates when its topic is 146 (a placeholder without
\* effect), an fbns entry to handleFbnsReceive.
RECURSIVE replayCombined(_, _, _)
replayCombined(entries, userCache, acc) ==
  IF entries = <<>> THEN acc
  ELSE LET event == Head(entries)
           r == IF event.tag = "fbns"
                  THEN handleFbnsReceive(event.arg, userCache)
                  ELSE [sync |-> <<>>, micro |-> <<>>, tasks |-> <<>>]
       IN replayCombined(Tail(entries), userCache,
            [sync |-> acc.sync \o r.sync, micro |-> acc.micro \o r.micro,
             tasks |-> acc.tasks \o r.tasks,
             visited |-> Append(acc.visited, event)])

\* for (const event of this.eventsToReplay) this.emit(...event) of lib1
RECURSIVE replayLib1(_, _)
replayLib1(entries, acc) ==
  IF entries = <<>> THEN acc
  ELSE replayLib1(Tail(entries),
         [sync |-> Append(acc.sync, Emit(Head(entries).tag, Head(entries).arg)),
          micro |-> acc.micro, tasks |-> acc.tasks,
          visited |-> Append(acc.visited, Head(entries))])

NoReplay == [sync |-> <<>>, micro |-> <<>>, tasks |-> <<>>, visited |-> <<>>]

\* a replay loop that starts at the second entry
replayLoop_skipFirst(entries, userCache) ==
  IF entries = <<>> THEN NoReplay
  ELSE IF variant = "combined"
         THEN replayCombined(Tail(entries), userCache, NoReplay)
         ELSE replayLib1(Tail(entries), NoReplay)

\* the replay loop of login(), by client class
replayLoop(entries, userCache) ==
  IF variant = "combined" THEN replayCombined(entries, userCache, NoReplay)
  ELSE replayLib1(entries, NoReplay)

\* the buffer the replay leaves behind: this.eventsToReplay = []
afterReplay(entries) == <<>>

\* the event login() announces readiness with
readyEvent == IF variant = "combined" THEN "connected" ELSE "ready"

\* ======================================================= transport ======
\* A transport is "idle", "connecting" (connect() called), "open" (the
\* connection is up and delivers events while connect() is still pending),
\* "connected" (connect() resolved), "failed" (connect() rejected) or
\* "disconnected".
loginVars == << loginSuccess, handlersRegistered, sessionFile, cookiesFile,
                cookieJar, fsLog >>
dedupVars == << processedMessageIds, dedupLog >>

\* The connection of transport t comes up.  The combined client's realtime
\* 'connect' handler emits 'realtimeConnected' and leaves ready alone.
transport_open(t) ==
  /\ IF t = "rt" THEN rt = "connecting" /\ rt' = "open" /\ UNCHANGED fbns
                 ELSE fbns = "connecting" /\ fbns' = "open" /\ UNCHANGED rt
  /\ emitted' = IF t = "rt" /\ variant = "combined"
                  THEN Append(emitted, Emit("realtimeConnected", None))
                  ELSE emitted
  /\ UNCHANGED << ready, eventsToReplay, logoutPc, nEvents, buffered,
                  replayed, msgTasks, fbnsTasks, loginPc, loginError >>
  /\ UNCHANGED << loginVars, dedupVars, cacheVars, configVars >>
  /\ UNCHANGED handlerRejections
  /\ UNCHANGED channelLog
  /\ UNCHANGED extVars

\* a client whose realtime 'connect' handler sets ready and announces
\* readiness by itself, without waiting for login() to get through
connect_resolved_readyOnConnect(t) ==
  /\ IF t = "rt" THEN rt = "open" /\ rt' = "connected" /\ UNCHANGED fbns
                 ELSE fbns = "open" /\ fbns' = "connected" /\ UNCHANGED rt
  /\ IF t = "rt"
       THEN LET r == replayLoop(eventsToReplay, users)
            IN /\ ready' = TRUE
               /\ emitted' = emitted \o <<Emit(readyEvent, None)>>
                                     \o r.sync \o r.micro
               /\ fbnsTasks' = fbnsTasks \o r.tasks
               /\ replayed' = replayed \o r.visited
               /\ eventsToReplay' = afterReplay(eventsToReplay)
               /\ loginPc' = IF loginPc = "connecting" THEN "done"
                             ELSE loginPc
       ELSE UNCHANGED << ready, emitted, fbnsTasks, replayed, eventsToReplay,
                         loginPc >>
  /\ UNCHANGED << logoutPc, nEvents, buffered, msgTasks, loginError >>
  /\ UNCHANGED << loginVars, dedupVars, cacheVars, configVars >>
  /\ UNCHANGED handlerRejections
  /\ UNCHANGED channelLog
  /\ UNCHANGED extVars

\* connect() of transport t resolves.  When it is the last one login() is
\* waiting for, login() continues without interleaving: ready is set, the
\* readiness event is emitted, the buffer is replayed and cleared.
connect_resolved(t) ==
  /\ IF t = "rt" THEN rt = "open" /\ rt' = "connected" /\ UNCHANGED fbns
                 ELSE fbns = "open" /\ fbns' = "connected" /\ UNCHANGED rt
  /\ IF /\ loginPc = "connecting"
        /\ rt' = "connected"
        /\ (variant = "combined" => fbns' = "connected")
       THEN LET r == replayLoop(eventsToReplay, users)
            IN /\ ready' = TRUE
               /\ emitted' = emitted \o <<Emit(readyEvent, None)>>
                                     \o r.sync \o r.micro
               /\ fbnsTasks' = fbnsTasks \o r.tasks
               /\ replayed' = replayed \o r.visited
               /\ eventsToReplay' = afterReplay(eventsToReplay)
               /\ loginPc' = "done"
       ELSE UNCHANGED << ready, emitted, fbnsTasks, replayed, eventsToReplay,
                         loginPc >>
  /\ UNCHANGED << logoutPc, nEvents, buffered, msgTasks, loginError >>
  /\ UNCHANGED << loginVars, dedupVars, cacheVars, configVars >>
  /\ UNCHANGED handlerRejections
  /\ UNCHANGED channelLog
  /\ UNCHANGED extVars

\* connect() of transport t rejects: Promise.all rejects and login() with
\* it (lib1 emits 'error' first); the other transport is left as it is.
connect_rejected(t) ==
  /\ IF t = "rt" THEN rt \in {"connecting", "open"} /\ rt' = "failed"
                      /\ UNCHANGED fbns
                 ELSE fbns \in {"connecting", "open"} /\ fbns' = "failed"
                      /\ UNCHANGED rt
  /\ IF loginPc = "connecting"
       THEN /\ loginPc' = "rejected"
            /\ loginError' = "connect"
            /\ emitted' = IF variant = "lib1"
                            THEN Append(emitted, Emit("error", "connect"))
                            ELSE emitted
       ELSE UNCHANGED << loginPc, loginError, emitted >>
  /\ UNCHANGED << ready, eventsToReplay, logoutPc, nEvents, buffered,
                  replayed, msgTasks, fbnsTasks >>
  /\ UNCHANGED << loginVars, dedupVars, cacheVars, configVars >>
  /\ UNCHANGED handlerRejections
  /\ UNCHANGED channelLog
  /\ UNCHANGED extVars

\* Events of a transport reach the registered handlers while it is up.
Delivers(state) ==
  /\ handlersRegistered
  /\ state \in {"open", "connected"}
  /\ nEvents < MaxEvents

\* ================================================== inbound handlers ====
\* handleMessageWrapper(data), registered for 'message' and 'direct' in the
\* combined client, up to the suspension of processMessage in fetchChat.
handleMessageWrapper(data) ==
  /\ variant = "combined"
  /\ Delivers(rt)
  /\ nEvents' = nEvents + 1
  /\ LET route == messageRoute(data, processedMessageIds,
                               maxProcessedMessageIds, chats)
         id == payloadOf(data).item_id
         seen == isNewMessageById(processedMessageIds,
                                  maxProcessedMessageIds, id)
     IN /\ IF route = "nopayload"
             THEN UNCHANGED dedupVars
             ELSE /\ processedMessageIds' = seen.ids
                  /\ dedupLog' = Append(dedupLog,
                       Call(id, seen.ret, processedMessageIds, seen.ids))
        /\ IF route = "cached"
             THEN LET r == upsertMessage(
                             [chatHeap |-> chatHeap, msgHeap |-> msgHeap,
                              messages |-> messages, emits |-> <<>>],
                             chats[threadIdOf(data)], threadIdOf(data),
                             payloadOf(data))
                  IN /\ chatHeap' = r.chatHeap
                     /\ msgHeap' = r.msgHeap
                     /\ messages' = r.messages
                     /\ emitted' = emitted \o r.emits
             ELSE UNCHANGED << chatHeap, msgHeap, messages, emitted >>
        /\ msgTasks' = IF route = "fetch"
                         THEN Append(msgTasks, [data |-> payloadOf(data),
                                                threadId |-> threadIdOf(data)])
                         ELSE msgTasks
  /\ UNCHANGED << ready, eventsToReplay, rt, fbns, logoutPc, buffered,
                  replayed, fbnsTasks, loginPc, loginError, chats,
                  pendingChats, users, userHeap >>
  /\ UNCHANGED << loginVars, configVars >>
  /\ UNCHANGED handlerRejections
  /\ UNCHANGED channelLog
  /\ UNCHANGED extVars

Remove(q, i) == SubSeq(q, 1, i - 1) \o SubSeq(q, i + 1, Len(q))

\* the chat processMessage goes on with after fetchChat: when the request
\* returned, fetchChat builds a new Chat from the thread and sets it in
\* cache.chats; when it threw, the catch of processMessage sets a minimal
\* Chat.  st = [chats, chatHeap].
fetchedChat(st, threadId, fetched, thread) ==
  LET heap == Append(st.chatHeap,
                IF fetched THEN NewChat(thread.thread_id, thread)
                ELSE NewChat(threadId, [thread_id |-> threadId,
                                        pending |-> FALSE]))
  IN [chats |-> [st.chats EXCEPT ![threadId] = Len(heap)], chatHeap |-> heap]

\* a processMessage without the inner try/catch: a failing fetch ends the
\* handler in the outer catch and nothing is cached
processMessage_resume_dropOnFail(i, fetched, pending) ==
  /\ i \in 1..Len(msgTasks)
  /\ LET task == msgTasks[i]
         c == fetchedChat([chats |-> chats, chatHeap |-> chatHeap],
                          task.threadId, TRUE,
                          [thread_id |-> task.threadId, pending |-> pending])
         r == upsertMessage([chatHeap |-> c.chatHeap, msgHeap |-> msgHeap,
                             messages |-> messages, emits |-> <<>>],
                            c.chats[task.threadId], task.threadId, task.data)
     IN IF fetched
          THEN /\ chats' = c.chats
               /\ chatHeap' = r.chatHeap
               /\ msgHeap' = r.msgHeap
               /\ messages' = r.messages
               /\ emitted' = emitted \o r.emits
          ELSE UNCHANGED << chats, chatHeap, msgHeap, messages, emitted >>
  /\ msgTasks' = Remove(msgTasks, i)
  /\ UNCHANGED << ready, eventsToReplay, rt, fbns, logoutPc, nEvents,
                  buffered, replayed, fbnsTasks, loginPc, loginError,
                  pendingChats, users, userHeap >>
  /\ UNCHANGED << loginVars, dedupVars, configVars >>
  /\ UNCHANGED handlerRejections
  /\ UNCHANGED channelLog
  /\ UNCHANGED extVars

\* processMessage resumes from fetchChat (task i) and runs to its end.
processMessage_resume(i, fetched, pending) ==
  /\ i \in 1..Len(msgTasks)
  /\ LET task == msgTasks[i]
         c == fetchedChat([chats |-> chats, chatHeap |-> chatHeap],
                          task.threadId, fetched,
                          [thread_id |-> task.threadId, pending |-> pending])
         r == upsertMessage([chatHeap |-> c.chatHeap, msgHeap |-> msgHeap,
                             messages |-> messages, emits |-> <<>>],
                            c.chats[task.threadId], task.threadId, task.data)
     IN /\ chats' = c.chats
        /\ chatHeap' = r.chatHeap
        /\ msgHeap' = r.msgHeap
        /\ messages' = r.messages
        /\ emitted' = emitted \o r.emits
  /\ msgTasks' = Remove(msgTasks, i)
  /\ UNCHANGED << ready, eventsToReplay, rt, fbns, logoutPc, nEvents,
                  buffered, replayed, fbnsTasks, loginPc, loginError,
                  pendingChats, users, userHeap >>
  /\ UNCHANGED << loginVars, dedupVars, configVars >>
  /\ UNCHANGED handlerRejections
  /\ UNCHANGED channelLog
  /\ UNCHANGED extVars

\* the realtime 'receive' handler of the combined client
onReceive(topic) ==
  /\ variant = "combined"
  /\ Delivers(rt)
  /\ nEvents' = nEvents + 1
  /\ IF ~ready
       THEN /\ eventsToReplay' = Append(eventsToReplay, Entry("realtime", topic))
            /\ buffered' = Append(buffered, Entry("realtime", topic))
            /\ UNCHANGED emitted
       ELSE /\ emitted' = Append(emitted, Emit("rawRealtime", topic))
            /\ UNCHANGED << eventsToReplay, buffered >>
  /\ UNCHANGED << ready, rt, fbns, logoutPc, replayed, msgTasks, fbnsTasks,
                  loginPc, loginError >>
  /\ UNCHANGED << loginVars, dedupVars, cacheVars, configVars >>
  /\ UNCHANGED handlerRejections
  /\ UNCHANGED channelLog
  /\ UNCHANGED extVars

\* the fbns push$ subscription of the combined client
onFbns(data) ==
  /\ variant = "combined"
  /\ Delivers(fbns)
  /\ nEvents' = nEvents + 1
  /\ IF ~ready
       THEN /\ eventsToReplay' = Append(eventsToReplay, Entry("fbns", data))
            /\ buffered' = Append(buffered, Entry("fbns", data))
            /\ UNCHANGED << emitted, fbnsTasks >>
       ELSE LET r == handleFbnsReceive(data, users)
            IN /\ emitted' = emitted \o <<Emit("rawFbns", data)>>
                                     \o r.sync \o r.micro
               /\ fbnsTasks' = fbnsTasks \o r.tasks
               /\ UNCHANGED << eventsToReplay, buffered >>
  /\ UNCHANGED << ready, rt, fbns, logoutPc, replayed, msgTasks, loginPc,
                  loginError >>
  /\ UNCHANGED << loginVars, dedupVars, cacheVars, configVars >>
  /\ UNCHANGED handlerRejections
  /\ UNCHANGED channelLog
  /\ UNCHANGED extVars

\* handleFbnsReceive resumes from fetchUser (task i): ig.user.info returned
\* and the user is patched or created, then the event is emitted; or it
\* threw, and the handler's promise rejects without emitting.
handleFbnsReceive_resume(i, fetched, userPayload) ==
  /\ i \in 1..Len(fbnsTasks)
  /\ LET data == fbnsTasks[i]
         r == patchOrCreateUser([users |-> users, userHeap |-> userHeap],
                                data.sourceUserId, userPayload)
     IN IF fetched
          THEN /\ users' = r.users
               /\ userHeap' = r.userHeap
               /\ emitted' = Append(emitted,
                    Emit(pushEventName(data), r.users[data.sourceUserId]))
          ELSE UNCHANGED << users, userHeap, emitted >>
  /\ fbnsTasks' = Remove(fbnsTasks, i)
  /\ UNCHANGED << ready, eventsToReplay, rt, fbns, logoutPc, nEvents,
                  buffered, replayed, msgTasks, loginPc, loginError,
                  chats, pendingChats, messages, chatHeap, msgHeap >>
  /\ UNCHANGED << loginVars, dedupVars, configVars >>
  /\ UNCHANGED handlerRejections
  /\ UNCHANGED channelLog
  /\ UNCHANGED extVars

\* the realtime 'close' handler: the combined client clears ready and emits
\* 'disconnected', lib1 emits 'disconnect'.  autoReconnect keeps the
\* transport delivering afterwards.
onClose ==
  /\ Delivers(rt)
  /\ nEvents' = nEvents + 1
  /\ ready' = IF variant = "combined" THEN FALSE ELSE ready
  /\ emitted' = Append(emitted,
                  Emit(IF variant = "combined" THEN "disconnected"
                       ELSE "disconnect", None))
  /\ UNCHANGED << eventsToReplay, rt, fbns, logoutPc, buffered, replayed,
                  msgTasks, fbnsTasks, loginPc, loginError >>
  /\ UNCHANGED << loginVars, dedupVars, cacheVars, configVars >>
  /\ UNCHANGED handlerRejections
  /\ UNCHANGED channelLog
  /\ UNCHANGED extVars

\* the 'message' and 'direct' handlers of lib1's _setupRealtimeHandlers:
\* buffered until ready; the processing after it is a placeholder
onMessageLib1(channel, data) ==
  /\ variant = "lib1"
  /\ Delivers(rt)
  /\ nEvents' = nEvents + 1
  /\ IF ~ready
       THEN /\ eventsToReplay' = Append(eventsToReplay, Entry(channel, data))
            /\ buffered' = Append(buffered, Entry(channel, data))
       ELSE UNCHANGED << eventsToReplay, buffered >>
  /\ UNCHANGED << ready, rt, fbns, logoutPc, replayed, msgTasks, fbnsTasks,
                  loginPc, loginError, emitted >>
  /\ UNCHANGED << loginVars, dedupVars, cacheVars, configVars >>
  /\ UNCHANGED handlerRejections
  /\ UNCHANGED channelLog
  /\ UNCHANGED extVars

\* ========================================================= lib1 login ====
\* login(username, password) of lib1, step 2: the session file is read only
\* if fs.existsSync finds it; any exception falls through to the cookies.
login_session_lib1 ==
  /\ variant = "lib1"
  /\ loginPc = "session"
  /\ fsLog' = fsLog \o <<FsOp("access", "session")>>
                    \o (IF sessionFile = "absent" THEN <<>>
                        ELSE <<FsOp("read", "session")>>)
  /\ IF sessionFile = "valid"
       THEN loginSuccess' = TRUE /\ loginPc' = "userinfo"
       ELSE loginSuccess' = FALSE /\ loginPc' = "cookies"
  /\ UNCHANGED << loginError, handlersRegistered, sessionFile, cookiesFile,
                  cookieJar, emitted >>
  /\ UNCHANGED << pipelineVars, cacheVars, configVars >>
  /\ UNCHANGED handlerRejections
  /\ UNCHANGED channelLog
  /\ UNCHANGED extVars

\* login of lib1, step 3: _loadCookies never throws (it emits 'error'),
\* then currentUser validates.  With no login method left the else branch
\* emits 'error' and throws.
login_cookies_lib1 ==
  /\ variant = "lib1"
  /\ loginPc = "cookies"
  /\ LET r == loadCookiesLib1(cookiesFile, cookieJar)
         loadError == IF r.threw THEN <<Emit("error", "loadCookies")>>
                      ELSE <<>>
     IN /\ cookieJar' = r.jar
        /\ fsLog' = fsLog \o <<FsOp("access", "cookies")>>
                          \o (IF cookiesFile.kind = "absent" THEN <<>>
                              ELSE <<FsOp("read", "cookies")>>)
        /\ IF validateCookies(r.jar)
             THEN /\ loginSuccess' = TRUE
                  /\ loginPc' = "userinfo"
                  /\ emitted' = emitted \o loadError
                  /\ UNCHANGED loginError
             ELSE /\ loginSuccess' = FALSE
                  /\ loginPc' = "rejected"
                  /\ loginError' = "noValidLogin"
                  /\ emitted' = emitted \o loadError
                                  \o <<Emit("error", "loginFailed")>>
  /\ UNCHANGED << handlersRegistered, sessionFile, cookiesFile >>
  /\ UNCHANGED << pipelineVars, cacheVars, configVars >>
  /\ UNCHANGED handlerRejections
  /\ UNCHANGED channelLog
  /\ UNCHANGED extVars

\* login of lib1 after the user info: _saveSession and _saveCookies (each
\* catches its own failure and emits 'error'), _setupRealtimeHandlers, and
\* the suspension in the irisData request.
login_save_lib1 ==
  /\ variant = "lib1"
  /\ loginPc = "save"
  /\ \E sessionSaved \in BOOLEAN, cookiesSaved \in BOOLEAN :
       /\ sessionFile' = IF sessionSaved THEN "written" ELSE sessionFile
       /\ cookiesFile' = IF cookiesSaved
                           THEN [kind |-> "list", recs |-> cookieJar]
                           ELSE cookiesFile
       /\ fsLog' = fsLog
            \o <<FsOp(IF sessionSaved THEN "write" ELSE "writeFailed",
                      "session")>>
            \o <<FsOp(IF cookiesSaved THEN "write" ELSE "writeFailed",
                      "cookies")>>
       /\ emitted' = emitted
            \o (IF sessionSaved THEN <<>>
                ELSE <<Emit("error", "saveSession")>>)
            \o (IF cookiesSaved THEN <<>>
                ELSE <<Emit("error", "saveCookies")>>)
  /\ handlersRegistered' = TRUE
  /\ loginPc' = "iris"
  /\ UNCHANGED << loginSuccess, loginError, cookieJar >>
  /\ UNCHANGED << pipelineVars, cacheVars, configVars >>
  /\ UNCHANGED handlerRejections
  /\ UNCHANGED channelLog
  /\ UNCHANGED extVars

\* ====================================================== logout ==========
\* logout() of the combined client up to the realtime disconnect: ready is
\* cleared, a running monitor is cleared and its handle set to null, and
\* setForegroundState and ig.account.logout return or throw; both failures
\* are caught and logged, and neither step changes the client, so the two
\* awaits are one suspension here.
logout ==
  /\ variant = "combined"
  /\ logoutPc = "idle"
  /\ logoutPc' = "realtime"
  /\ ready' = FALSE
  /\ messageRequestsMonitorInterval' = NoTimer
  /\ activeIntervals' = activeIntervals \ {messageRequestsMonitorInterval}
  /\ UNCHANGED << eventsToReplay, rt, fbns, nEvents, buffered, replayed,
                  msgTasks, fbnsTasks, loginPc, loginError, emitted >>
  /\ UNCHANGED << loginVars, dedupVars, cacheVars, configVars >>
  /\ UNCHANGED handlerRejections
  /\ UNCHANGED channelLog
  /\ UNCHANGED << timerSeq, pollTasks, requestVars, userLog >>

\* a logout whose realtime disconnect failure ends the teardown: the push
\* channel is not disconnected
logout_realtime_abortOnFail ==
  /\ logoutPc = "realtime"
  /\ \E ok \in BOOLEAN :
       /\ rt' = IF ok /\ rt \in {"open", "connected"} THEN "disconnected"
                ELSE rt
       /\ IF variant = "combined"
            THEN IF ok THEN logoutPc' = "fbns" /\ UNCHANGED emitted
                 ELSE /\ logoutPc' = "done"
                      /\ emitted' = Append(emitted, Emit("disconnected", None))
            ELSE /\ logoutPc' = "done"
                 /\ emitted' = emitted
                      \o (IF ok THEN <<>> ELSE <<Emit("error", "disconnect")>>)
                      \o <<Emit("disconnect", None)>>
  /\ UNCHANGED << ready, eventsToReplay, fbns, nEvents, buffered, replayed,
                  msgTasks, fbnsTasks, loginPc, loginError >>
  /\ UNCHANGED << loginVars, dedupVars, cacheVars, configVars >>
  /\ UNCHANGED handlerRejections
  /\ UNCHANGED channelLog
  /\ UNCHANGED << monitorVars, requestVars, userLog >>

\* ig.realtime.disconnect() returned (the transport stops) or threw.
\* lib1's disconnect() emits 'error' on a throw and ends with 'disconnect'.
logout_realtime ==
  /\ logoutPc = "realtime"
  /\ \E ok \in BOOLEAN :
       /\ rt' = IF ok /\ rt \in {"open", "connected"} THEN "disconnected"
                ELSE rt
       /\ IF variant = "combined"
            THEN logoutPc' = "fbns" /\ UNCHANGED emitted
            ELSE /\ logoutPc' = "done"
                 /\ emitted' = emitted
                      \o (IF ok THEN <<>> ELSE <<Emit("error", "disconnect")>>)
                      \o <<Emit("disconnect", None)>>
  /\ UNCHANGED << ready, eventsToReplay, fbns, nEvents, buffered, replayed,
                  msgTasks, fbnsTasks, loginPc, loginError >>
  /\ UNCHANGED << loginVars, dedupVars, cacheVars, configVars >>
  /\ UNCHANGED handlerRejections
  /\ UNCHANGED channelLog
  /\ UNCHANGED << monitorVars, requestVars, userLog >>

\* ig.fbns.disconnect() returned or threw; logout() emits 'disconnected'.
logout_fbns ==
  /\ logoutPc = "fbns"
  /\ logoutPc' = "done"
  /\ \E ok \in BOOLEAN :
       fbns' = IF ok /\ fbns \in {"open", "connected"} THEN "disconnected"
               ELSE fbns
  /\ emitted' = Append(emitted, Emit("disconnected", None))
  /\ UNCHANGED << ready, eventsToReplay, rt, nEvents, buffered, replayed,
                  msgTasks, fbnsTasks, loginPc, loginError >>
  /\ UNCHANGED << loginVars, dedupVars, cacheVars, configVars >>
  /\ UNCHANGED handlerRejections
  /\ UNCHANGED channelLog
  /\ UNCHANGED << monitorVars, requestVars, userLog >>

\* disconnect() of lib1 up to its await: ready is cleared; without an API
\* client there is nothing to await and 'disconnect' is emitted at once.
disconnect ==
  /\ variant = "lib1"
  /\ logoutPc = "idle"
  /\ ready' = FALSE
  /\ IF loginPc = "idle"
       THEN /\ logoutPc' = "done"
            /\ emitted' = Append(emitted, Emit("disconnect", None))
       ELSE logoutPc' = "realtime" /\ UNCHANGED emitted
  /\ UNCHANGED << eventsToReplay, rt, fbns, nEvents, buffered, replayed,
                  msgTasks, fbnsTasks, loginPc, loginError >>
  /\ UNCHANGED << loginVars, dedupVars, cacheVars, configVars >>
  /\ UNCHANGED handlerRejections
  /\ UNCHANGED channelLog
  /\ UNCHANGED extVars

\* ================================================== specifications ======
NoChats == [t \in ThreadIds |-> NoObj]
NoUsers == [u \in UserIds \cup {SelfId} |-> NoObj]

InitWith(variants, sessions, cookieFiles, accepted, capacities) ==
  /\ variant \in variants
  /\ sessionFile \in sessions
  /\ cookiesFile \in cookieFiles
  /\ cookiesAccepted \in accepted
  /\ maxProcessedMessageIds \in capacities
  /\ ready = FALSE
  /\ eventsToReplay = <<>>
  /\ processedMessageIds = <<>>
  /\ loginPc = "idle"
  /\ loginSuccess = FALSE
  /\ loginError = "none"
  /\ handlersRegistered = FALSE
  /\ cookieJar = <<>>
  /\ fsLog = <<>>
  /\ rt = "idle"
  /\ fbns = "idle"
  /\ logoutPc = "idle"
  /\ emitted = <<>>
  /\ nEvents = 0
  /\ buffered = <<>>
  /\ replayed = <<>>
  /\ dedupLog = <<>>
  /\ chats = NoChats
  /\ pendingChats = NoChats
  /\ messages = NoMessages
  /\ users = NoUsers
  /\ chatHeap = <<>>
  /\ msgHeap = <<>>
  /\ userHeap = <<>>
  /\ msgTasks = <<>>
  /\ fbnsTasks = <<>>
  /\ messageRequestsMonitorInterval = NoTimer
  /\ activeIntervals = {}
  /\ timerSeq = 0
  /\ pollTasks = 0
  /\ requestTasks = <<>>
  /\ requestLog = <<>>
  /\ userLog = <<>>
  /\ handlerRejections = 0
  /\ channelLog = <<>>

Transports == {"rt", "fbns"}

\* ---- Spec: the session lifecycle and the inbound pipeline of a client
\* whose session file is valid.
FreshTs == Now * 1000                     \* now, on the microsecond scale
Payload(id, thread, ts) ==
  [item_id |-> id, user_id |-> "7", thread_id |-> thread, timestamp |-> ts]
MessageEvents ==
  { [message |-> <<Payload("m1", "t1", FreshTs)>>, thread |-> None] }
Topics == { [id |-> "146"], [id |-> "88"] }
Pushes == { [pushCategory |-> "new_follower", sourceUserId |-> "7"],
            [pushCategory |-> "direct_v2_pending", sourceUserId |-> "7"] }
UserPayloads == { [pk |-> "7", username |-> "ann", full_name |-> None] }
InboxFeeds == { <<>>, <<[thread_id |-> "t1", pending |-> FALSE]>> }

Init ==
  InitWith({"combined", "lib1"}, {"valid"},
           {[kind |-> "absent", recs |-> <<>>]}, {FALSE}, {MaxCapacity})

Next ==
  \/ login
  \/ attemptLogin_session
  \/ login_session_lib1
  \/ login_userinfo
  \/ \E threads \in InboxFeeds : login_prepopulate(TRUE, threads)
  \/ login_prepopulate(FALSE, <<>>)
  \/ login_save_lib1
  \/ login_iris
  \/ \E t \in Transports : transport_open(t)
  \/ \E t \in Transports : connect_resolved(t)
  \/ \E t \in Transports : connect_rejected(t)
  \/ \E data \in MessageEvents : handleMessageWrapper(data)
  \/ \E i \in 1..MaxEvents, fetched \in BOOLEAN :
       processMessage_resume(i, fetched, FALSE)
  \/ \E topic \in Topics : onReceive(topic)
  \/ \E data \in Pushes : onFbns(data)
  \/ \E i \in 1..MaxEvents, fetched \in BOOLEAN, u \in UserPayloads :
       handleFbnsReceive_resume(i, fetched, u)
  \/ onClose
  \/ \E channel \in {"message", "direct"}, data \in MessageEvents :
       onMessageLib1(channel, data)
  \/ logout
  \/ logout_realtime
  \/ logout_fbns
  \/ disconnect

Spec == Init /\ [][Next]_vars

\* ---- SpecLogin: the login state machine over every state of the two
\* persisted files, up to the transports' connects; no inbound events.
InitLogin ==
  InitWith({"combined", "lib1"}, SessionStates, CookieFiles, BOOLEAN,
           {MaxCapacity})

NextLogin ==
  \/ login
  \/ attemptLogin_session
  \/ attemptLogin_cookies
  \/ login_session_lib1
  \/ login_cookies_lib1
  \/ login_userinfo
  \/ \E threads \in InboxFeeds : login_prepopulate(TRUE, threads)
  \/ login_save_lib1
  \/ login_iris
  \/ \E t \in Transports : transport_open(t)
  \/ \E t \in Transports : connect_resolved(t)
  \/ \E t \in Transports : connect_rejected(t)

SpecLogin == InitLogin /\ [][NextLogin]_vars

\* ---- SpecDedup: the dedup window under any sequence of isNewMessageById
\* calls, for every capacity up to MaxCapacity.
CallIds == MsgIds \cup {None, ""}

\* one call this.isNewMessageById(messageId)
dedup_call(messageId) ==
  /\ Len(dedupLog) < MaxCalls
  /\ LET r == isNewMessageById(processedMessageIds, maxProcessedMessageIds,
                               messageId)
     IN /\ processedMessageIds' = r.ids
        /\ dedupLog' = Append(dedupLog,
                         Call(messageId, r.ret, processedMessageIds, r.ids))
  /\ UNCHANGED << ready, eventsToReplay, rt, fbns, logoutPc, nEvents,
                  buffered, replayed, msgTasks, fbnsTasks, loginPc,
                  loginError, emitted >>
  /\ UNCHANGED << loginVars, cacheVars, configVars >>
  /\ UNCHANGED handlerRejections
  /\ UNCHANGED channelLog
  /\ UNCHANGED extVars

InitDedup ==
  InitWith({"combined"}, {"valid"}, {[kind |-> "absent", recs |-> <<>>]},
           {FALSE}, 0..MaxCapacity)

NextDedup == \E messageId \in CallIds : dedup_call(messageId)

SpecDedup == InitDedup /\ [][NextDedup]_vars

\* ============================================================ claims =====
Range(q) == {q[i] : i \in 1..Len(q)}

\* ---- dedup window (SpecDedup)
\* the identifier stays in the window from call i up to call j
StaysFrom(id, i, j) == \A k \in i..(j - 1) : InSeq(id, dedupLog[k].after)

\* C5: isNewMessageById returns true exactly once per distinct non-empty
\* identifier while it stays in the window: a call for an identifier that
\* is not in the window returns true and inserts it (an insertion into a
\* window of capacity 0 is evicted at once), and every later call while the
\* identifier is still present returns false and leaves the window, its
\* contents and its order, unchanged.
C5_TrueOncePerId ==
  \A j \in 1..Len(dedupLog) :
    LET c == dedupLog[j]
    IN ~Falsy(c.id) =>
         /\ ~InSeq(c.id, c.before) =>
              /\ c.ret
              /\ InSeq(c.id, c.after) \/ maxProcessedMessageIds = 0
         /\ \A i \in 1..(j - 1) :
              (dedupLog[i].id = c.id /\ StaysFrom(c.id, i, j))
                => (~c.ret /\ c.after = c.before)

\* C5 witness: an identifier reported new, then seen again while present
\* (after a call for another identifier) and reported as a duplicate
C5_Witness ==
  \E i, j \in 1..Len(dedupLog) :
    /\ i + 1 < j
    /\ dedupLog[i].id = dedupLog[j].id
    /\ ~Falsy(dedupLog[i].id)
    /\ dedupLog[i].ret
    /\ ~dedupLog[j].ret
    /\ dedupLog[i + 1].id # dedupLog[i].id
    /\ dedupLog[i + 1].ret

\* C6: the dedup window never holds more identifiers than
\* options.maxProcessedMessageIds.
C6_WindowBounded == Len(processedMessageIds) <= maxProcessedMessageIds

\* C6 witness: a full window after an insertion that had to evict
C6_Witness ==
  /\ maxProcessedMessageIds >= 1
  /\ Len(processedMessageIds) = maxProcessedMessageIds
  /\ \E j \in 1..Len(dedupLog) :
       /\ dedupLog[j].ret
       /\ ~Falsy(dedupLog[j].id)
       /\ Len(dedupLog[j].before) = maxProcessedMessageIds

\* the call that inserted identifier x, as seen at call j: the latest call
\* up to j that reported x as new
InsertedAt(x, j) ==
  CHOOSE k \in 0..j :
    /\ k > 0 => (dedupLog[k].id = x /\ dedupLog[k].ret)
    /\ \A l \in (k + 1)..j : ~(dedupLog[l].id = x /\ dedupLog[l].ret)
\* what call j removed from the window
EvictedBy(j) ==
  (Range(dedupLog[j].before) \cup {dedupLog[j].id}) \ Range(dedupLog[j].after)
Inserting(j) == dedupLog[j].ret /\ ~Falsy(dedupLog[j].id)

\* C7: eviction is strict FIFO by insertion.  An insertion that pushes the
\* window over capacity removes exactly one entry, the one inserted
\* earliest among those present (a re-seen identifier keeps the place of
\* its insertion), and any other insertion removes nothing; the evicted
\* identifier's next occurrence is reported as new.
C7_FifoEviction ==
  \A j \in 1..Len(dedupLog) :
    Inserting(j) =>
      LET c == dedupLog[j]
      IN /\ IF Len(c.before) + 1 > maxProcessedMessageIds
              THEN /\ Cardinality(EvictedBy(j)) = 1
                   /\ \A e \in EvictedBy(j), y \in Range(c.after) :
                        InsertedAt(e, j) < InsertedAt(y, j)
              ELSE EvictedBy(j) = {}
         /\ Range(c.after) \subseteq Range(c.before) \cup {c.id}
         /\ \A e \in EvictedBy(j), k \in (j + 1)..Len(dedupLog) :
              (dedupLog[k].id = e /\ \A l \in (j + 1)..(k - 1) :
                                        dedupLog[l].id # e)
                => dedupLog[k].ret

\* C7 witness: an eviction that removes an identifier re-seen after a
\* younger one was inserted
C7_Witness ==
  \E i, j \in 1..Len(dedupLog) :
    /\ i < j
    /\ Inserting(j)
    /\ ~dedupLog[i].ret
    /\ EvictedBy(j) = {dedupLog[i].id}
    /\ Len(dedupLog[j].after) = 2

\* ---- ready flag and replay buffer (Spec)
\* one inbound event of a data channel is handled in this step
inboundStep ==
  /\ nEvents' = nEvents + 1
  /\ ~(/\ Len(emitted') = Len(emitted) + 1
       /\ emitted'[Len(emitted')].name \in {"disconnected", "disconnect"})

\* C1 as claimed: while ready is false, an inbound event of any channel is
\* appended to the replay buffer and nothing of it is processed: the dedup
\* window, the caches, the pending fetches and the emitted events stay as
\* they are.
C1_AsClaimed ==
  [][(~ready /\ inboundStep)
       => /\ Len(eventsToReplay') = Len(eventsToReplay) + 1
          /\ processedMessageIds' = processedMessageIds
          /\ Len(dedupLog') = Len(dedupLog)
          /\ Len(msgHeap') = Len(msgHeap)
          /\ Len(chatHeap') = Len(chatHeap)
          /\ Len(msgTasks') = Len(msgTasks)
          /\ Len(fbnsTasks') = Len(fbnsTasks)
          /\ Len(emitted') = Len(emitted)]_vars

SameEntries(a, b) ==
  /\ Len(a) = Len(b)
  /\ \A i \in 1..Len(a) : a[i].tag = b[i].tag /\ a[i].arg = b[i].arg

CountEmits(seq, names) ==
  Cardinality({i \in 1..Len(seq) : seq[i].name \in names})
CountPushes(entries, category) ==
  Cardinality({i \in 1..Len(entries) :
                 /\ entries[i].tag = "fbns"
                 /\ entries[i].arg.pushCategory = category})

\* the step in which login() flips ready
readyFlip == ~ready /\ ready'

\* C2: when login flips ready, the replay loop visits every buffered event
\* exactly once and in arrival order, and leaves the buffer empty; lib1
\* emits one event per entry, in order, after 'ready', and the combined
\* client routes every buffered push to its handler once.  No entry is
\* replayed at any other time.
C2_ReplayOnceInOrder ==
  [][/\ readyFlip
        => /\ replayed = <<>>
           /\ SameEntries(eventsToReplay, buffered)
           /\ SameEntries(replayed', buffered)
           /\ eventsToReplay' = <<>>
           /\ variant = "lib1"
                => /\ Len(emitted') = Len(emitted) + 1 + Len(buffered)
                   /\ emitted'[Len(emitted) + 1].name = "ready"
                   /\ \A i \in 1..Len(buffered) :
                        emitted'[Len(emitted) + 1 + i].name = buffered[i].tag
           /\ variant = "combined"
                => /\ emitted'[Len(emitted) + 1].name = "connected"
                   /\ CountEmits(emitted', {"pendingRequestNotification"})
                        = CountPushes(buffered, "direct_v2_pending")
                   /\ CountEmits(emitted', {"newFollower"})
                        + Len(fbnsTasks') - Len(fbnsTasks)
                        = CountPushes(buffered, "new_follower")
     /\ Len(replayed') # Len(replayed) => readyFlip]_vars

\* C2 witness: login is done after two entries of different channels were
\* buffered and replayed
C2_Witness ==
  /\ loginPc = "done"
  /\ Len(replayed) >= 2
  /\ replayed[1].tag # replayed[2].tag
  /\ eventsToReplay = <<>>

\* C3 as claimed: ready never returns to false once it is true.
C3_AsClaimed == [][ready => ready']_vars

\* C4 as claimed: once login has flipped ready and cleared the buffer, the
\* buffer stays empty.
C4_AsClaimed == loginPc = "done" => eventsToReplay = <<>>

\* ---- login state machine (SpecLogin)
attemptDone == loginPc \notin {"idle", "session", "cookies"}
cookieFileRead ==
  \E i \in 1..Len(fsLog) :
    fsLog[i].path = "cookies" /\ fsLog[i].op \in {"access", "read"}
sessionWriteTried ==
  \E i \in 1..Len(fsLog) :
    fsLog[i].path = "session" /\ fsLog[i].op \in {"write", "writeFailed"}

\* C8: with a session file that exists, deserializes and passes the
\* identity check, the login attempt succeeds and the cookie file is never
\* read and no cookie is installed.
C8_SessionFirst ==
  (sessionFile = "valid" /\ attemptDone)
    => /\ loginSuccess
       /\ loginError # "noValidLogin"
       /\ ~cookieFileRead
       /\ cookieJar = <<>>

\* C8 witness: logged in from the session file although a cookie file the
\* platform would accept is there
C8_Witness ==
  /\ variant = "combined"
  /\ sessionFile = "valid"
  /\ loginPc = "userinfo"
  /\ loginSuccess
  /\ cookiesFile.kind = "list"
  /\ validateCookies(installCookies(cookiesFile.recs, <<>>))

\* the session restore failed and the cookie set validated (combined client)
cookieLogin ==
  /\ variant = "combined"
  /\ attemptDone
  /\ cookieFileRead
  /\ cookiesFile.kind = "list"
  /\ validateCookies(cookieJar)

\* C9 as claimed: whenever session restore fails and the cookie set
\* validates, login succeeds and the session file has been written when
\* attemptLogin reports success.
C9_AsClaimed == cookieLogin => (loginSuccess /\ sessionFile = "written")

\* C9 amended: whenever session restore fails and the cookie set validates,
\* attemptLogin reports success; the session file has been written by then
\* unless serializing or writing it threw, in which case the failure is
\* caught, success is still reported and the file is left as it was.
C9_CookiePromotion ==
  cookieLogin
    => /\ loginSuccess
       /\ loginError # "noValidLogin"
       /\ sessionWriteTried
       /\ IF InSeq(FsOp("write", "session"), fsLog)
            THEN sessionFile = "written"
            ELSE sessionFile \in SessionStates \ {"valid"}

\* C9 witness: a cookie login after a rejected session, with a record
\* without domain skipped, and the session file written
C9_Witness ==
  /\ cookieLogin
  /\ loginPc = "userinfo"
  /\ sessionFile = "written"
  /\ Len(cookieJar) < Len(cookiesFile.recs)

\* both restore paths failed
bothFailed == attemptDone /\ cookieFileRead /\ ~validateCookies(cookieJar)

\* C10: when the session restore and the cookie restore both fail, the
\* login attempt reports failure and login() rejects with the "no valid
\* login method" error; no file is written, no handler is registered and
\* no transport is ever connected.
C10_BothFail ==
  bothFailed
    => /\ ~loginSuccess
       /\ loginPc = "rejected"
       /\ loginError = "noValidLogin"
       /\ \A i \in 1..Len(fsLog) : fsLog[i].op \in {"access", "read"}
       /\ sessionFile \in SessionStates \ {"valid"}
       /\ rt = "idle" /\ fbns = "idle"
       /\ ~handlersRegistered
       /\ ~ready

\* C10 witness: a rejected session and a cookie list the platform rejects
C10_Witness ==
  /\ variant = "combined"
  /\ bothFailed
  /\ loginPc = "rejected"
  /\ sessionFile = "rejected"
  /\ cookiesFile.kind = "list"
  /\ Len(cookieJar) > 0

\* a transport has been told to connect
connectIssued == rt # "idle" \/ fbns # "idle"

\* C11: a transport is told to connect only after the login state machine
\* has reported success (and, by then, the handlers are registered and
\* login() is at or past its connect step); on a path where both restore
\* steps failed no connect is ever issued.
C11_ConnectAfterSuccess ==
  /\ connectIssued
       => /\ loginSuccess
          /\ ~bothFailed
          /\ handlersRegistered
          /\ loginPc \in {"connecting", "done", "rejected"}
          /\ loginError # "noValidLogin"
  /\ ~loginSuccess => ~connectIssued

\* C11 witness: both transports of the combined client are connecting after
\* a login that fell back to the cookies
C11_Witness ==
  /\ variant = "combined"
  /\ rt = "connecting" /\ fbns = "connecting"
  /\ cookieFileRead
  /\ loginSuccess

\* ================================================== user upsert ==========
\* ---- SpecUsers: the user cache under any sequence of _patchOrCreateUser
\* calls.
UpsertIds == UserIds \cup {SelfId}
UpsertPayloads ==
  { [pk |-> id, username |-> u, full_name |-> f] :
      id \in UpsertIds, u \in {None, "ann", "bob"}, f \in {None, "Ann"} }

\* one call this._patchOrCreateUser(userID, userPayload); the value
\* returned is this.cache.users.get(userID)
patchOrCreateUser_call(userID, userPayload) ==
  /\ Len(userLog) < MaxUserCalls
  /\ LET r == patchOrCreateUser([users |-> users, userHeap |-> userHeap],
                                userID, userPayload)
     IN /\ users' = r.users
        /\ userHeap' = r.userHeap
        /\ userLog' = Append(userLog, [id |-> userID, payload |-> userPayload,
                                       ret |-> r.users[userID]])
  /\ UNCHANGED << chats, pendingChats, messages, chatHeap, msgHeap >>
  /\ UNCHANGED << pipelineVars, loginVars, configVars >>
  /\ UNCHANGED handlerRejections
  /\ UNCHANGED channelLog
  /\ UNCHANGED << loginPc, loginError, emitted >>
  /\ UNCHANGED << monitorVars, requestVars >>

InitUsers ==
  InitWith({"combined", "lib1"}, {"valid"},
           {[kind |-> "absent", recs |-> <<>>]}, {FALSE}, {MaxCapacity})

NextUsers ==
  \E p \in UpsertPayloads : patchOrCreateUser_call(p.pk, p)

SpecUsers == InitUsers /\ [][NextUsers]_vars

\* the calls made for one id, and the last value a field was given
CallsFor(id) == {k \in 1..Len(userLog) : userLog[k].id = id}
Latest(S) == CHOOSE k \in S : \A j \in S : j <= k
LastGiven(id, field) ==
  LET given == {k \in CallsFor(id) : userLog[k].payload[field] # None}
  IN IF given = {} THEN None ELSE userLog[Latest(given)].payload[field]

\* C12: over every sequence of _patchOrCreateUser calls, all calls for one
\* id return the same entity, which is the one the cache holds for the id;
\* one entity exists per id; and each field of the entity is the last value
\* a payload gave it (a payload without the field leaves it as it was).
C12_UpsertSameEntityMerged ==
  /\ \A i, j \in 1..Len(userLog) :
       (userLog[i].id = userLog[j].id) <=> (userLog[i].ret = userLog[j].ret)
  /\ \A i \in 1..Len(userLog) :
       /\ userLog[i].ret # NoObj
       /\ users[userLog[i].id] = userLog[i].ret
  /\ Len(userHeap) = Cardinality({userLog[i].id : i \in 1..Len(userLog)})
  /\ \A id \in UpsertIds :
       CallsFor(id) # {}
         => /\ userHeap[users[id]].id = id
            /\ userHeap[users[id]].username = LastGiven(id, "username")
            /\ userHeap[users[id]].full_name = LastGiven(id, "full_name")

\* C12 witness: three calls for one id; the second overwrites the username
\* and has no full_name, the third has neither
C12_Witness ==
  /\ Len(userLog) = 3
  /\ \A i \in 1..3 : userLog[i].id = "7"
  /\ userLog[1].payload.username = "ann" /\ userLog[1].payload.full_name = "Ann"
  /\ userLog[2].payload.username = "bob" /\ userLog[2].payload.full_name = None
  /\ userLog[3].payload.username = None
  /\ userHeap[users["7"]].username = "bob"
  /\ userHeap[users["7"]].full_name = "Ann"

\* ============================================== message requests ========
\* approveMessageRequest(threadId) / declineMessageRequest(threadId) up to
\* the await of the remote call: a falsy threadId returns false at once;
\* without an API client (login() not yet called) the remote call throws
\* inside the try and the call returns false.
messageRequest_call(op, threadId) ==
  /\ variant = "combined"
  /\ Len(requestLog) + Len(requestTasks) < MaxRequests
  /\ IF Falsy(threadId) \/ loginPc = "idle"
       THEN /\ requestLog' = Append(requestLog,
                               [op |-> op, threadId |-> threadId,
                                ok |-> FALSE, ret |-> FALSE])
            /\ UNCHANGED requestTasks
       ELSE /\ requestTasks' = Append(requestTasks,
                                 [op |-> op, threadId |-> threadId])
            /\ UNCHANGED requestLog
  /\ UNCHANGED << pipelineVars, loginVars, cacheVars, configVars >>
  /\ UNCHANGED handlerRejections
  /\ UNCHANGED channelLog
  /\ UNCHANGED << loginPc, loginError, emitted, monitorVars, userLog >>

\* an approve whose cache update never deletes the chat from pendingChats
approveMessageRequest_resume_keepPending(i, ok) ==
  /\ i \in 1..Len(requestTasks)
  /\ requestTasks[i].op = "approve"
  /\ LET threadId == requestTasks[i].threadId
         chat == pendingChats[threadId]
     IN /\ IF ok /\ chat # NoObj
             THEN /\ chatHeap' = [chatHeap EXCEPT ![chat].pending = FALSE]
                  /\ chats' = [chats EXCEPT ![threadId] = chat]
                  /\ UNCHANGED pendingChats
                  /\ emitted' = Append(emitted,
                                  Emit("messageRequestApproved", chat))
             ELSE UNCHANGED << chatHeap, chats, pendingChats, emitted >>
        /\ requestLog' = Append(requestLog,
                           [op |-> "approve", threadId |-> threadId,
                            ok |-> ok, ret |-> ok])
  /\ requestTasks' = Remove(requestTasks, i)
  /\ UNCHANGED << messages, users, msgHeap, userHeap >>
  /\ UNCHANGED << pipelineVars, loginVars, configVars >>
  /\ UNCHANGED handlerRejections
  /\ UNCHANGED channelLog
  /\ UNCHANGED << loginPc, loginError, monitorVars, userLog >>

\* an approve that updates the cache before it awaits the remote call, so
\* that the update is kept when the call throws
approveMessageRequest_resume_eager(i, ok) ==
  /\ i \in 1..Len(requestTasks)
  /\ requestTasks[i].op = "approve"
  /\ LET threadId == requestTasks[i].threadId
         chat == pendingChats[threadId]
     IN /\ IF chat # NoObj
             THEN /\ chatHeap' = [chatHeap EXCEPT ![chat].pending = FALSE]
                  /\ chats' = [chats EXCEPT ![threadId] = chat]
                  /\ pendingChats' = [pendingChats EXCEPT ![threadId] = NoObj]
                  /\ emitted' = Append(emitted,
                                  Emit("messageRequestApproved", chat))
             ELSE UNCHANGED << chatHeap, chats, pendingChats, emitted >>
        /\ requestLog' = Append(requestLog,
                           [op |-> "approve", threadId |-> threadId,
                            ok |-> ok, ret |-> ok])
  /\ requestTasks' = Remove(requestTasks, i)
  /\ UNCHANGED << messages, users, msgHeap, userHeap >>
  /\ UNCHANGED << pipelineVars, loginVars, configVars >>
  /\ UNCHANGED handlerRejections
  /\ UNCHANGED channelLog
  /\ UNCHANGED << loginPc, loginError, monitorVars, userLog >>

\* approveMessageRequest resumes from ig.directThread.approve: when it
\* returned, a chat found in pendingChats has its pending flag cleared, is
\* set in chats, deleted from pendingChats and announced; when it threw,
\* the catch returns false.
approveMessageRequest_resume(i, ok) ==
  /\ i \in 1..Len(requestTasks)
  /\ requestTasks[i].op = "approve"
  /\ LET threadId == requestTasks[i].threadId
         chat == pendingChats[threadId]
     IN /\ IF ok /\ chat # NoObj
             THEN /\ chatHeap' = [chatHeap EXCEPT ![chat].pending = FALSE]
                  /\ chats' = [chats EXCEPT ![threadId] = chat]
                  /\ pendingChats' = [pendingChats EXCEPT ![threadId] = NoObj]
                  /\ emitted' = Append(emitted,
                                  Emit("messageRequestApproved", chat))
             ELSE UNCHANGED << chatHeap, chats, pendingChats, emitted >>
        /\ requestLog' = Append(requestLog,
                           [op |-> "approve", threadId |-> threadId,
                            ok |-> ok, ret |-> ok])
  /\ requestTasks' = Remove(requestTasks, i)
  /\ UNCHANGED << messages, users, msgHeap, userHeap >>
  /\ UNCHANGED << pipelineVars, loginVars, configVars >>
  /\ UNCHANGED handlerRejections
  /\ UNCHANGED channelLog
  /\ UNCHANGED << loginPc, loginError, monitorVars, userLog >>

\* declineMessageRequest resumes from ig.directThread.decline: when it
\* returned, a chat found in pendingChats is deleted from it and announced.
declineMessageRequest_resume(i, ok) ==
  /\ i \in 1..Len(requestTasks)
  /\ requestTasks[i].op = "decline"
  /\ LET threadId == requestTasks[i].threadId
         chat == pendingChats[threadId]
     IN /\ IF ok /\ chat # NoObj
             THEN /\ pendingChats' = [pendingChats EXCEPT ![threadId] = NoObj]
                  /\ emitted' = Append(emitted,
                                  Emit("messageRequestDeclined", chat))
             ELSE UNCHANGED << pendingChats, emitted >>
        /\ requestLog' = Append(requestLog,
                           [op |-> "decline", threadId |-> threadId,
                            ok |-> ok, ret |-> ok])
  /\ requestTasks' = Remove(requestTasks, i)
  /\ UNCHANGED << chats, chatHeap, messages, users, msgHeap, userHeap >>
  /\ UNCHANGED << pipelineVars, loginVars, configVars >>
  /\ UNCHANGED handlerRejections
  /\ UNCHANGED channelLog
  /\ UNCHANGED << loginPc, loginError, monitorVars, userLog >>

\* ---- SpecRequests: login up to the chat cache pre-population over inbox
\* and pending threads, and approve / decline calls at any time.
RequestFeeds ==
  { <<>>,
    <<[thread_id |-> "t1", pending |-> TRUE]>>,
    <<[thread_id |-> "t1", pending |-> FALSE],
      [thread_id |-> "t2", pending |-> TRUE]>>,
    <<[thread_id |-> "t1", pending |-> TRUE],
      [thread_id |-> "t2", pending |-> TRUE]>> }
RequestArgs == ThreadIds \cup {""}

InitRequests ==
  InitWith({"combined"}, {"valid"}, {[kind |-> "absent", recs |-> <<>>]},
           {FALSE}, {MaxCapacity})

NextRequests ==
  \/ login
  \/ attemptLogin_session
  \/ login_userinfo
  \/ \E threads \in RequestFeeds : login_prepopulate(TRUE, threads)
  \/ login_prepopulate(FALSE, <<>>)
  \/ \E op \in {"approve", "decline"}, threadId \in RequestArgs :
       messageRequest_call(op, threadId)
  \/ \E i \in 1..MaxRequests, ok \in BOOLEAN :
       approveMessageRequest_resume(i, ok)
  \/ \E i \in 1..MaxRequests, ok \in BOOLEAN :
       declineMessageRequest_resume(i, ok)

SpecRequests == InitRequests /\ [][NextRequests]_vars

\* C13 as claimed: every chat id is a key of at most one of
\* cache.pendingChats and cache.chats.
C13_AsClaimed ==
  \A t \in ThreadIds : ~(chats[t] # NoObj /\ pendingChats[t] # NoObj)

\* the call that returns in this step
returned == requestLog'[Len(requestLog')]
returns(op) ==
  /\ Len(requestLog') = Len(requestLog) + 1
  /\ returned.op = op
  /\ returned.ok
CountApproved(seq) ==
  Cardinality({i \in 1..Len(seq) : seq[i].name = "messageRequestApproved"})

\* C14: when the remote approve succeeds, a chat in pendingChats is moved,
\* the same object, to chats with its pending flag cleared, and
\* messageRequestApproved is emitted once, in one step; for an id that is
\* not in pendingChats the call returns true, changes no cache and emits
\* nothing.
C14_ApproveMoves ==
  [][returns("approve")
       => /\ returned.ret
          /\ IF pendingChats[returned.threadId] # NoObj
               THEN /\ chats'[returned.threadId]
                         = pendingChats[returned.threadId]
                    /\ pendingChats'[returned.threadId] = NoObj
                    /\ ~chatHeap'[chats'[returned.threadId]].pending
                    /\ Len(chatHeap') = Len(chatHeap)
                    /\ \A t \in ThreadIds \ {returned.threadId} :
                         chats'[t] = chats[t] /\ pendingChats'[t] = pendingChats[t]
                    /\ Len(emitted') = Len(emitted) + 1
                    /\ CountApproved(emitted') = CountApproved(emitted) + 1
               ELSE /\ chats' = chats
                    /\ pendingChats' = pendingChats
                    /\ chatHeap' = chatHeap
                    /\ Len(emitted') = Len(emitted)]_vars

\* C14 witness: two successful approves of the same pending chat have
\* returned true and messageRequestApproved was emitted once
C14_Witness ==
  /\ Len(requestLog) >= 2
  /\ \A i \in 1..2 : /\ requestLog[i].op = "approve"
                     /\ requestLog[i].threadId = "t1"
                     /\ requestLog[i].ok /\ requestLog[i].ret
  /\ CountApproved(emitted) = 1
  /\ chats["t1"] # NoObj /\ pendingChats["t1"] = NoObj
  /\ ~chatHeap[chats["t1"]].pending

\* C15 as claimed: when the remote decline succeeds for a chat in
\* pendingChats, the id is removed from pendingChats, cache.chats is left
\* unchanged, and afterwards the id is in neither pendingChats nor chats.
C15_AsClaimed ==
  [][(returns("decline") /\ pendingChats[returned.threadId] # NoObj)
       => /\ pendingChats'[returned.threadId] = NoObj
          /\ chats' = chats
          /\ chats'[returned.threadId] = NoObj]_vars

\* ============================================== message ingestion =======
\* ---- SpecIngest: a logged-in combined client whose realtime connection
\* is up receives message events with and without the identifiers, and with
\* timestamps on the three scales.  A stamp is the timestamp as the
\* platform sends it (ts) with the instant it stands for in milliseconds.
MonthAgo == Now - 2592                    \* 30 days before now, milliseconds
IngestStamps ==
  { [scale |-> "us", ts |-> Now * 1000, ms |-> Now],
    [scale |-> "us", ts |-> MonthAgo * 1000, ms |-> MonthAgo],
    [scale |-> "ms", ts |-> Now - 5, ms |-> Now - 5],
    [scale |-> "ms", ts |-> MonthAgo, ms |-> MonthAgo],
    [scale |-> "s", ts |-> Now \div 1000, ms |-> (Now \div 1000) * 1000] }
StampOf(ts) == CHOOSE st \in IngestStamps : st.ts = ts
IngestEvents ==
  { [message |-> <<Payload("m1", "t1", st.ts)>>, thread |-> None] :
      st \in IngestStamps }
  \cup { [message |-> <<[item_id |-> "m2", user_id |-> None,
                         thread_id |-> "t1", timestamp |-> Now * 1000]>>,
          thread |-> None],
         [message |-> <<[item_id |-> None, user_id |-> "7",
                         thread_id |-> "t1", timestamp |-> Now * 1000]>>,
          thread |-> None] }

InitIngest ==
  InitWith({"combined"}, {"valid"}, {[kind |-> "absent", recs |-> <<>>]},
           {FALSE}, {MaxCapacity})

NextIngest ==
  \/ login
  \/ attemptLogin_session
  \/ login_userinfo
  \/ \E threads \in InboxFeeds : login_prepopulate(TRUE, threads)
  \/ login_iris
  \/ transport_open("rt")
  \/ \E data \in IngestEvents : handleMessageWrapper(data)
  \/ \E i \in 1..MaxEvents, fetched \in BOOLEAN :
       processMessage_resume(i, fetched, FALSE)

SpecIngest == InitIngest /\ [][NextIngest]_vars

\* the payload lacks the message identifier or the sender identifier
lacksIdentifier(data) ==
  Falsy(payloadOf(data).item_id) \/ Falsy(payloadOf(data).user_id)

\* C16 as claimed: a message event whose payload lacks item_id or user_id
\* changes no cache and inserts nothing into the dedup window.
C16_AsClaimed ==
  [][\A data \in IngestEvents :
       (lacksIdentifier(data) /\ handleMessageWrapper(data))
         => /\ processedMessageIds' = processedMessageIds
            /\ chats' = chats
            /\ messages' = messages
            /\ chatHeap' = chatHeap
            /\ Len(msgHeap') = Len(msgHeap)
            /\ Len(msgTasks') = Len(msgTasks)]_vars

\* the step emits messageCreate
emitsMessageCreate ==
  /\ Len(emitted') = Len(emitted) + 1
  /\ emitted'[Len(emitted')].name = "messageCreate"

\* the step handles a new, well-formed message of a cached chat to its end
ingests(data) ==
  /\ handleMessageWrapper(data)
  /\ messageRoute(data, processedMessageIds, maxProcessedMessageIds, chats)
       = "cached"

\* C17 as claimed: whatever scale the timestamp arrives in, the message is
\* announced exactly when the instant it stands for, in milliseconds, plus
\* the grace is later than now.
C17_AsClaimed ==
  [][\A data \in IngestEvents :
       ingests(data)
         => (emitsMessageCreate
               <=> StampOf(payloadOf(data).timestamp).ms + Grace > Now)]_vars

\* the payload is in the chat's nested cache and in the global cache after
\* the step
cachedAfter(payload, threadId) ==
  /\ messages'[payload.item_id] # NoObj
  /\ chats'[threadId] # NoObj
  /\ chatHeap'[chats'[threadId]].messages[payload.item_id]
       = messages'[payload.item_id]
  /\ msgHeap'[messages'[payload.item_id]].timestamp = payload.timestamp

\* C18: a message that passed validation and dedup and fails the age
\* filter is in the owning chat's nested cache and in the global message
\* cache when processMessage ends, and no event is emitted for it; this
\* holds when the chat was cached and when processMessage had to fetch it.
C18_StaleCachedNotEmitted ==
  [][/\ \A data \in IngestEvents :
          (ingests(data) /\ ~isMessageValid(payloadOf(data)))
            => /\ cachedAfter(payloadOf(data), threadIdOf(data))
               /\ Len(emitted') = Len(emitted)
     /\ \A i \in 1..Len(msgTasks), fetched \in BOOLEAN :
          (processMessage_resume(i, fetched, FALSE)
             /\ ~isMessageValid(msgTasks[i].data))
            => /\ cachedAfter(msgTasks[i].data, msgTasks[i].threadId)
               /\ Len(emitted') = Len(emitted)]_vars

\* C18 witness: the month-old message is in both caches and nothing was
\* announced
C18_Witness ==
  /\ messages["m1"] # NoObj
  /\ msgHeap[messages["m1"]].timestamp = MonthAgo * 1000
  /\ chats["t1"] # NoObj
  /\ chatHeap[chats["t1"]].messages["m1"] = messages["m1"]
  /\ CountEmits(emitted, {"messageCreate"}) = 0

\* ============================================== monitor and teardown ====
\* a start that installs the new interval without clearing the old one
startMessageRequestsMonitor_noClear ==
  /\ variant = "combined"
  /\ timerSeq < MaxTimers
  /\ timerSeq' = timerSeq + 1
  /\ activeIntervals' = activeIntervals \cup {timerSeq + 1}
  /\ messageRequestsMonitorInterval' = timerSeq + 1
  /\ UNCHANGED << pipelineVars, loginVars, cacheVars, configVars >>
  /\ UNCHANGED handlerRejections
  /\ UNCHANGED channelLog
  /\ UNCHANGED << loginPc, loginError, emitted, pollTasks, requestVars,
                  userLog >>

\* startMessageRequestsMonitor(intervalMs): an interval the handle refers
\* to is cleared, then setInterval installs a new one and the handle is set
\* to it.
startMessageRequestsMonitor ==
  /\ variant = "combined"
  /\ timerSeq < MaxTimers
  /\ timerSeq' = timerSeq + 1
  /\ activeIntervals' =
       (IF messageRequestsMonitorInterval # NoTimer
          THEN activeIntervals \ {messageRequestsMonitorInterval}
          ELSE activeIntervals) \cup {timerSeq + 1}
  /\ messageRequestsMonitorInterval' = timerSeq + 1
  /\ UNCHANGED << pipelineVars, loginVars, cacheVars, configVars >>
  /\ UNCHANGED handlerRejections
  /\ UNCHANGED channelLog
  /\ UNCHANGED << loginPc, loginError, emitted, pollTasks, requestVars,
                  userLog >>

\* a monitor callback without the `if (this.ready)` test
monitor_tick_noReadyTest(timer) ==
  /\ timer \in activeIntervals
  /\ nEvents < MaxEvents
  /\ nEvents' = nEvents + 1
  /\ pollTasks' = pollTasks + 1
  /\ UNCHANGED << ready, eventsToReplay, processedMessageIds, rt, fbns,
                  logoutPc, buffered, replayed, dedupLog, msgTasks,
                  fbnsTasks >>
  /\ UNCHANGED << loginVars, cacheVars, configVars >>
  /\ UNCHANGED handlerRejections
  /\ UNCHANGED channelLog
  /\ UNCHANGED << loginPc, loginError, emitted, requestVars, userLog,
                  messageRequestsMonitorInterval, activeIntervals, timerSeq >>

\* the callback of an active interval fires: when the client is ready it
\* suspends in getMessageRequests, otherwise it does nothing.
monitor_tick(timer) ==
  /\ timer \in activeIntervals
  /\ nEvents < MaxEvents
  /\ nEvents' = nEvents + 1
  /\ pollTasks' = IF ready THEN pollTasks + 1 ELSE pollTasks
  /\ UNCHANGED << ready, eventsToReplay, processedMessageIds, rt, fbns,
                  logoutPc, buffered, replayed, dedupLog, msgTasks,
                  fbnsTasks >>
  /\ UNCHANGED << loginVars, cacheVars, configVars >>
  /\ UNCHANGED handlerRejections
  /\ UNCHANGED channelLog
  /\ UNCHANGED << loginPc, loginError, emitted, requestVars, userLog,
                  messageRequestsMonitorInterval, activeIntervals, timerSeq >>

\* getMessageRequests returned (the threads, or [] after a caught failure)
\* and the callback emits 'messageRequestsPolled'.
monitor_poll_resume ==
  /\ pollTasks > 0
  /\ pollTasks' = pollTasks - 1
  /\ emitted' = Append(emitted, Emit("messageRequestsPolled", None))
  /\ UNCHANGED << pipelineVars, loginVars, cacheVars, configVars >>
  /\ UNCHANGED handlerRejections
  /\ UNCHANGED channelLog
  /\ UNCHANGED << loginPc, loginError, requestVars, userLog,
                  messageRequestsMonitorInterval, activeIntervals, timerSeq >>

\* ---- SpecTeardown: the combined client's login, its monitor and logout,
\* each callable at any time.
InitTeardown ==
  InitWith({"combined"}, {"valid"}, {[kind |-> "absent", recs |-> <<>>]},
           {FALSE}, {MaxCapacity})

NextTeardown ==
  \/ login
  \/ attemptLogin_session
  \/ login_userinfo
  \/ login_prepopulate(FALSE, <<>>)
  \/ login_iris
  \/ \E t \in Transports : transport_open(t)
  \/ \E t \in Transports : connect_resolved(t)
  \/ startMessageRequestsMonitor
  \/ \E timer \in 1..MaxTimers : monitor_tick(timer)
  \/ monitor_poll_resume
  \/ logout
  \/ logout_realtime
  \/ logout_fbns

SpecTeardown == InitTeardown /\ [][NextTeardown]_vars

\* C19: at most one monitor interval is active, and the handle refers to
\* the only active interval or is null with none active; a start while one
\* is active clears it before installing the new one.
C19_SingleMonitor ==
  /\ Cardinality(activeIntervals) <= 1
  /\ IF messageRequestsMonitorInterval = NoTimer
       THEN activeIntervals = {}
       ELSE activeIntervals = {messageRequestsMonitorInterval}

\* C19 witness: the monitor was started while one was active
C19_Witness ==
  /\ timerSeq = 2
  /\ messageRequestsMonitorInterval = 2
  /\ activeIntervals = {2}
  /\ logoutPc = "idle"

CountDisconnected(seq) ==
  Cardinality({i \in 1..Len(seq) : seq[i].name = "disconnected"})

BoundaryPushes ==
  { [pushCategory |-> c, sourceUserId |-> "7"] :
      c \in {"new_follower", "private_user_follow_request",
             "direct_v2_pending"} }
arrivesBuffered(data) == data.pushCategory = "new_follower"

InitBoundary ==
  InitWith({"combined"}, {"valid"}, {[kind |-> "absent", recs |-> <<>>]},
           {FALSE}, {MaxCapacity})

NextBoundary ==
  \/ login
  \/ attemptLogin_session
  \/ login_userinfo
  \/ login_prepopulate(FALSE, <<>>)
  \/ login_iris
  \/ \E t \in Transports : transport_open(t)
  \/ \E t \in Transports : connect_resolved(t)
  \/ \E data \in BoundaryPushes :
       (ready <=> ~arrivesBuffered(data)) /\ onFbns(data)
  \/ \E i \in 1..MaxEvents, fetched \in BOOLEAN, u \in UserPayloads :
       handleFbnsReceive_resume(i, fetched, u)

SpecBoundary == InitBoundary /\ [][NextBoundary]_vars

liveNames == {"followRequest", "pendingRequestNotification"}

\* C21 as claimed: the application event of every push buffered before the
\* flip is emitted before the application event of every push that arrived
\* live after it.
C21_AsClaimed ==
  \A i, j \in 1..Len(emitted) :
    (emitted[i].name = "newFollower" /\ emitted[j].name \in liveNames)
      => i < j

\* the case the claim singles out: a buffered push is still suspended in its
\* user fetch when a live push, whose user is cached, has emitted
C21_CachedCase ==
  /\ \E k \in 1..Len(fbnsTasks) : arrivesBuffered(fbnsTasks[k])
  /\ users["7"] # NoObj
  /\ \E j \in 1..Len(emitted) : emitted[j].name = "followRequest"

\* ---- replay against live dispatch (Spec)
CountTag(entries, tag) ==
  Cardinality({i \in 1..Len(entries) : entries[i].tag = tag})

\* the events of the given name emitted in this step
emitsInStep(name) ==
  CountEmits(emitted', {name}) - CountEmits(emitted, {name})

\* C22 as claimed: the replay of the combined client emits for every
\* buffered 'receive' event the rawRealtime event, and for every buffered
\* push the rawFbns event, that the live handler emits for it.
C22_AsClaimed ==
  [][(readyFlip /\ variant = "combined")
       => /\ emitsInStep("rawRealtime") = CountTag(eventsToReplay, "realtime")
          /\ emitsInStep("rawFbns") = CountTag(eventsToReplay, "fbns")]_vars

\* ================================================ concurrent ingestion ==
\* ---- SpecChats: a logged-in combined client whose realtime connection is
\* up receives fresh, well-formed messages of two chats; the inbox feed at
\* login holds the first chat or nothing, so that a message finds its chat
\* cached or has to fetch it.  A thread fetched on demand is a pending
\* one, which tells its Chat from the minimal Chat of a failed fetch.
ChatEvents ==
  { [message |-> <<Payload("m1", "t1", FreshTs)>>, thread |-> None],
    [message |-> <<Payload("m2", "t1", FreshTs)>>, thread |-> None],
    [message |-> <<Payload("m3", "t2", FreshTs)>>, thread |-> None] }

InitChats ==
  InitWith({"combined"}, {"valid"}, {[kind |-> "absent", recs |-> <<>>]},
           {FALSE}, {MaxCapacity})

NextChats ==
  \/ login
  \/ attemptLogin_session
  \/ login_userinfo
  \/ \E threads \in InboxFeeds : login_prepopulate(TRUE, threads)
  \/ login_iris
  \/ transport_open("rt")
  \/ \E data \in ChatEvents : handleMessageWrapper(data)
  \/ \E i \in 1..MaxEvents, fetched \in BOOLEAN :
       processMessage_resume(i, fetched, TRUE)

SpecChats == InitChats /\ [][NextChats]_vars

\* the message object is in the nested cache of the chat that cache.chats
\* holds for its thread
inCachedChat(m) ==
  /\ chats[msgHeap[m].chatID] # NoObj
  /\ chatHeap[chats[msgHeap[m].chatID]].messages[msgHeap[m].id] = m

\* C23 as claimed: when no message handler is suspended any more, every
\* message that was processed is in the nested cache of the one chat that
\* cache.chats holds for its thread, also when two handlers fetched the
\* same chat concurrently.
C23_AsClaimed ==
  msgTasks = <<>> => \A m \in 1..Len(msgHeap) : inCachedChat(m)

\* the position, among the events handed to handleMessageWrapper, of the
\* first one that carried the identifier and passed the dedup window
arrival(id) ==
  LET passed == {k \in 1..Len(dedupLog) :
                   dedupLog[k].id = id /\ dedupLog[k].ret}
  IN CHOOSE k \in passed : \A l \in passed : k <= l

announced(i) == emitted[i].name = "messageCreate"

\* C24 as claimed: messageCreate events are emitted in the order in which
\* their messages arrived on the channel.
C24_AsClaimed ==
  \A i, j \in 1..Len(emitted) :
    (i < j /\ announced(i) /\ announced(j))
      => arrival(msgHeap[emitted[i].arg].id)
           <= arrival(msgHeap[emitted[j].arg].id)

\* the case the claim singles out: the first message to arrive is suspended
\* in the fetch of its chat when a later message, whose chat was cached at
\* login, has been announced
C24_CachedCase ==
  /\ Len(dedupLog) >= 2
  /\ \E k \in 1..Len(msgTasks) : msgTasks[k].data.item_id = dedupLog[1].id
  /\ \E i \in 1..Len(emitted) :
       /\ announced(i)
       /\ msgHeap[emitted[i].arg].id = dedupLog[2].id
       /\ Len(chatHeap) = 1

\* ================================================== chat operations =====
\* fetchChat(chatID, true) resumes from the directThread request: a new
\* Chat is built from the thread and set in cache.chats.  The call itself
\* changes nothing and needs the API client, which login() creates; a call
\* without force suspends in the same request when the chat is not cached.
\* A request that throws rejects the call and changes nothing.
fetchChat_resume(chatID, pending) ==
  /\ loginPc # "idle"
  /\ Len(chatHeap) < MaxChatObjects
  /\ LET c == fetchedChat([chats |-> chats, chatHeap |-> chatHeap], chatID,
                          TRUE, [thread_id |-> chatID, pending |-> pending])
     IN /\ chats' = c.chats
        /\ chatHeap' = c.chatHeap
  /\ UNCHANGED << pendingChats, messages, users, msgHeap, userHeap >>
  /\ UNCHANGED << pipelineVars, loginVars, configVars >>
  /\ UNCHANGED handlerRejections
  /\ UNCHANGED channelLog
  /\ UNCHANGED << loginPc, loginError, emitted >>
  /\ UNCHANGED extVars

\* createChat(userIDs) resumes from createGroupThread, which returns the
\* thread of these users, a new one or the one that exists: a new Chat is
\* built from it and set in cache.chats.
createChat_resume(thread) ==
  /\ loginPc # "idle"
  /\ Len(chatHeap) < MaxChatObjects
  /\ chatHeap' = Append(chatHeap, NewChat(thread.thread_id, thread))
  /\ chats' = [chats EXCEPT ![thread.thread_id] = Len(chatHeap) + 1]
  /\ UNCHANGED << pendingChats, messages, users, msgHeap, userHeap >>
  /\ UNCHANGED << pipelineVars, loginVars, configVars >>
  /\ UNCHANGED handlerRejections
  /\ UNCHANGED channelLog
  /\ UNCHANGED << loginPc, loginError, emitted >>
  /\ UNCHANGED extVars

\* ---- SpecChatOps: login with the chat cache pre-population over inbox
\* and pending threads, message ingestion, and the public fetchChat and
\* createChat at any time once the API client exists; the dedup window
\* holds one identifier or MaxCapacity.
GroupThreads == { [thread_id |-> t, pending |-> FALSE] : t \in ThreadIds }

InitChatOps ==
  InitWith({"combined"}, {"valid"}, {[kind |-> "absent", recs |-> <<>>]},
           {FALSE}, {1, MaxCapacity})

NextChatOps ==
  \/ login
  \/ attemptLogin_session
  \/ login_userinfo
  \/ \E threads \in RequestFeeds : login_prepopulate(TRUE, threads)
  \/ login_iris
  \/ transport_open("rt")
  \/ \E data \in ChatEvents : handleMessageWrapper(data)
  \/ \E i \in 1..MaxEvents, fetched \in BOOLEAN :
       processMessage_resume(i, fetched, FALSE)
  \/ \E chatID \in ThreadIds : fetchChat_resume(chatID, FALSE)
  \/ \E thread \in GroupThreads : createChat_resume(thread)

SpecChatOps == InitChatOps /\ [][NextChatOps]_vars

\* C25 as claimed: once cache.chats holds a chat for an id, the same object
\* stays under that key whatever operation sees the id afterwards.
C25_AsClaimed ==
  [][\A t \in ThreadIds : chats[t] # NoObj => chats'[t] = chats[t]]_vars

\* the chats that are reachable through cache.chats or cache.pendingChats
cachedChats == {chats[t] : t \in ThreadIds} \cup
               {pendingChats[t] : t \in ThreadIds}

\* C26 as claimed: a message id that is in the nested cache of a cached
\* chat and in the global message cache refers to the same object in both.
C26_AsClaimed ==
  \A c \in cachedChats \ {NoObj}, m \in MsgIds :
    (chatHeap[c].messages[m] # NoObj /\ messages[m] # NoObj)
      => chatHeap[c].messages[m] = messages[m]

\* ---- lookup-or-fetch on a failing fetch (SpecBoundary)
\* C27 as claimed: when the user fetch of a push handler throws, a
\* placeholder user is cached under the known id and the handler emits its
\* application event with it.
C27_AsClaimed ==
  [][\A i \in 1..Len(fbnsTasks), u \in UserPayloads :
       handleFbnsReceive_resume(i, FALSE, u)
         => /\ users'[fbnsTasks[i].sourceUserId] # NoObj
            /\ Len(emitted') = Len(emitted) + 1
            /\ emitted'[Len(emitted')].name = pushEventName(fbnsTasks[i])]_vars

\* ---- ingestion without chat metadata (SpecChats)
\* C28: when the chat fetch of a message handler fails, the handler sets a
\* chat keyed by the message's thread id in cache.chats, and the message,
\* one object, is in that chat's nested cache and in the global message
\* cache when the handler ends.
C28_MinimalChatOnFetchFailure ==
  [][\A i \in 1..Len(msgTasks), pending \in BOOLEAN :
       processMessage_resume(i, FALSE, pending)
         => LET t == msgTasks[i].threadId
                m == msgTasks[i].data.item_id
            IN /\ chats'[t] # NoObj
               /\ chats'[t] # chats[t]
               /\ chatHeap'[chats'[t]].id = t
               /\ messages'[m] # NoObj
               /\ chatHeap'[chats'[t]].messages[m] = messages'[m]
               /\ msgHeap'[messages'[m]].id = m
               /\ msgHeap'[messages'[m]].chatID = t
               /\ Len(msgTasks') = Len(msgTasks) - 1]_vars

\* C28 witness: the chat of the second thread is the minimal one (a fetched
\* one is pending) and holds the message, which is in the global cache too
C28_Witness ==
  /\ chats["t2"] # NoObj
  /\ ~chatHeap[chats["t2"]].pending
  /\ messages["m3"] # NoObj
  /\ chatHeap[chats["t2"]].messages["m3"] = messages["m3"]
  /\ msgTasks = <<>>

\* ---- what login() throws (SpecLogin)
\* C29 as claimed: login() rejects only because both restore paths failed;
\* a failure of the client-user fetch, of the pre-population, of the
\* session write or of a connect does not reach the caller.
C29_AsClaimed ==
  loginPc = "rejected" => (loginError = "noValidLogin" /\ ~loginSuccess)

\* login() has rejected after a restore path succeeded, by stage
C29_RejectsAfterRestore ==
  /\ loginPc = "rejected"
  /\ loginSuccess
  /\ loginError \in {"userInfo", "iris", "connect"}

\* ================================================ failure isolation =====
\* where an exception is raised inside processMessage on a cached chat:
\* "construct" in new Message / message._patch, before anything is cached;
\* "emit" in a messageCreate listener, after the caches are updated and the
\* event is out
ErrorPoints == {"construct", "emit"}

\* a message handler without its try/catch blocks: the exception rejects
\* the promise of the handler
handleMessageWrapper_throws_uncaught(data, point) ==
  /\ variant = "combined"
  /\ Delivers(rt)
  /\ messageRoute(data, processedMessageIds, maxProcessedMessageIds, chats)
       = "cached"
  /\ nEvents' = nEvents + 1
  /\ LET id == payloadOf(data).item_id
         seen == isNewMessageById(processedMessageIds,
                                  maxProcessedMessageIds, id)
         r == upsertMessage([chatHeap |-> chatHeap, msgHeap |-> msgHeap,
                             messages |-> messages, emits |-> <<>>],
                            chats[threadIdOf(data)], threadIdOf(data),
                            payloadOf(data))
     IN /\ processedMessageIds' = seen.ids
        /\ dedupLog' = Append(dedupLog,
                         Call(id, seen.ret, processedMessageIds, seen.ids))
        /\ IF point = "construct"
             THEN UNCHANGED << chatHeap, msgHeap, messages, emitted >>
             ELSE /\ r.emits # <<>>
                  /\ chatHeap' = r.chatHeap
                  /\ msgHeap' = r.msgHeap
                  /\ messages' = r.messages
                  /\ emitted' = emitted \o r.emits
  /\ handlerRejections' = handlerRejections + 1
  /\ UNCHANGED channelLog
  /\ UNCHANGED << ready, eventsToReplay, rt, fbns, logoutPc, buffered,
                  replayed, msgTasks, fbnsTasks, loginPc, loginError, chats,
                  pendingChats, users, userHeap >>
  /\ UNCHANGED << loginVars, variant, maxProcessedMessageIds,
                  cookiesAccepted >>
  /\ UNCHANGED extVars

\* handleMessageWrapper(data) on a cached chat when an exception is raised
\* at `point`: what was done before the exception stays, the catch of
\* processMessage logs it, and the handler returns normally.
handleMessageWrapper_throws(data, point) ==
  /\ variant = "combined"
  /\ Delivers(rt)
  /\ messageRoute(data, processedMessageIds, maxProcessedMessageIds, chats)
       = "cached"
  /\ nEvents' = nEvents + 1
  /\ LET id == payloadOf(data).item_id
         seen == isNewMessageById(processedMessageIds,
                                  maxProcessedMessageIds, id)
         r == upsertMessage([chatHeap |-> chatHeap, msgHeap |-> msgHeap,
                             messages |-> messages, emits |-> <<>>],
                            chats[threadIdOf(data)], threadIdOf(data),
                            payloadOf(data))
     IN /\ processedMessageIds' = seen.ids
        /\ dedupLog' = Append(dedupLog,
                         Call(id, seen.ret, processedMessageIds, seen.ids))
        /\ IF point = "construct"
             THEN UNCHANGED << chatHeap, msgHeap, messages, emitted >>
             ELSE /\ r.emits # <<>>
                  /\ chatHeap' = r.chatHeap
                  /\ msgHeap' = r.msgHeap
                  /\ messages' = r.messages
                  /\ emitted' = emitted \o r.emits
  /\ UNCHANGED handlerRejections
  /\ UNCHANGED channelLog
  /\ UNCHANGED << ready, eventsToReplay, rt, fbns, logoutPc, buffered,
                  replayed, msgTasks, fbnsTasks, loginPc, loginError, chats,
                  pendingChats, users, userHeap >>
  /\ UNCHANGED << loginVars, variant, maxProcessedMessageIds,
                  cookiesAccepted >>
  /\ UNCHANGED extVars

\* ---- SpecIsolation: the message ingestion of SpecChats with handlers
\* that fail in the construction of the entity or in a listener.
InitIsolation ==
  InitWith({"combined"}, {"valid"}, {[kind |-> "absent", recs |-> <<>>]},
           {FALSE}, {MaxCapacity})

NextIsolation ==
  \/ login
  \/ attemptLogin_session
  \/ login_userinfo
  \/ \E threads \in InboxFeeds : login_prepopulate(TRUE, threads)
  \/ login_iris
  \/ transport_open("rt")
  \/ \E data \in ChatEvents : handleMessageWrapper(data)
  \/ \E data \in ChatEvents, point \in ErrorPoints :
       handleMessageWrapper_throws(data, point)
  \/ \E i \in 1..MaxEvents, fetched \in BOOLEAN :
       processMessage_resume(i, fetched, TRUE)

SpecIsolation == InitIsolation /\ [][NextIsolation]_vars

\* C30: no message handler's promise rejects; a handler that fails leaves
\* the listener registered, the transport up and the suspended handlers of
\* other events as they were; and while the transport is up every message
\* event is handled, whatever failed before.
C30_FailureIsolated ==
  /\ [](handlerRejections = 0)
  /\ [](Delivers(rt) => \A data \in ChatEvents :
                          ENABLED handleMessageWrapper(data))
  /\ [][\A data \in ChatEvents, point \in ErrorPoints :
          handleMessageWrapper_throws(data, point)
            => /\ handlersRegistered'
               /\ rt' = rt
               /\ msgTasks' = msgTasks
               /\ Len(dedupLog') = Len(dedupLog) + 1]_vars

\* C30 witness: the first message failed in its construction (it passed
\* the dedup window and is in no cache), and a later message of the same
\* chat is cached and announced
C30_Witness ==
  /\ Len(dedupLog) >= 2
  /\ dedupLog[1].id = "m1" /\ dedupLog[1].ret
  /\ messages["m1"] = NoObj
  /\ msgTasks = <<>>
  /\ messages["m2"] # NoObj
  /\ \E i \in 1..Len(emitted) :
       announced(i) /\ msgHeap[emitted[i].arg].id = "m2"
  /\ handlerRejections = 0

\* ---- missing identifier (SpecDedup)
\* C31: isNewMessageById called with a missing or empty identifier returns
\* true and leaves the dedup window unchanged, contents and order (no
\* insertion, no eviction), whatever the window holds.
C31_MissingIdNotInserted ==
  \A j \in 1..Len(dedupLog) :
    Falsy(dedupLog[j].id) =>
      /\ dedupLog[j].ret
      /\ dedupLog[j].after = dedupLog[j].before
      /\ \A x \in Range(dedupLog[j].after) : ~Falsy(x)

\* C31 witness: a call without identifier on a full window, and a call with
\* the empty identifier on a non-empty window
C31_Witness ==
  /\ maxProcessedMessageIds >= 1
  /\ \E i, j \in 1..Len(dedupLog) :
       /\ dedupLog[i].id = None
       /\ Len(dedupLog[i].before) = maxProcessedMessageIds
       /\ dedupLog[j].id = ""
       /\ Len(dedupLog[j].before) >= 1

\* ---- corrupt cookie records (SpecLogin)
\* the records of a cookie list that carry a domain, in list order, as
\* they are expected in the cookie store
withDomain(recs) == SelectSeq(recs, LAMBDA c : ~Falsy(c.domain))
expectedJar(recs) ==
  [i \in 1..Len(withDomain(recs)) |->
     [name |-> withDomain(recs)[i].name,
      domain |-> StripDot(withDomain(recs)[i].domain)]]
hasCorruptRecord(recs) == \E i \in 1..Len(recs) : Falsy(recs[i].domain)

\* the cookie step runs on a cookie list in this step
cookieStepOn(recs) ==
  /\ loginPc = "cookies"
  /\ loginPc' # "cookies"
  /\ cookiesFile.kind = "list"
  /\ cookiesFile.recs = recs

\* C32 as claimed: cookie loading skips corrupt records without aborting.
\* For any cookie list, the cookie step leaves in the cookie store exactly
\* the records that carry a domain, in list order, none without a domain,
\* and the step succeeds exactly when the platform accepts those records:
\* a record without a domain never makes the load or the step fail.
C32_AsClaimed ==
  [][\A recs \in SeqsUpTo(CookieRecs, MaxCookies) :
       cookieStepOn(recs) =>
         /\ cookieJar' = expectedJar(recs)
         /\ loginSuccess' <=> validateCookies(expectedJar(recs))
         /\ \A i \in 1..Len(emitted') :
              emitted'[i].name = "error" => emitted'[i].arg # "loadCookies"]_vars

\* the same statement for loadCookiesFromJson of the combined client alone
C32_CombinedLoader ==
  [][\A recs \in SeqsUpTo(CookieRecs, MaxCookies) :
       (variant = "combined" /\ cookieStepOn(recs)) =>
         /\ cookieJar' = expectedJar(recs)
         /\ loginSuccess' <=> validateCookies(expectedJar(recs))]_vars

\* a cookie step of the combined client has skipped a record without
\* domain, installed a later record and logged in
C32_SkippedCase ==
  /\ variant = "combined"
  /\ loginPc = "userinfo"
  /\ cookiesFile.kind = "list"
  /\ Len(cookiesFile.recs) = 2
  /\ Falsy(cookiesFile.recs[1].domain)
  /\ cookieJar = expectedJar(cookiesFile.recs)
  /\ Len(cookieJar) = 1

\* the alternate client has failed its cookie step on a list whose session
\* cookie the platform accepts, with an empty cookie store, because a record
\* without domain came first
C32_AbortedLoad ==
  /\ variant = "lib1"
  /\ loginPc = "rejected"
  /\ cookiesAccepted
  /\ cookiesFile.kind = "list"
  /\ validateCookies(expectedJar(cookiesFile.recs))
  /\ hasCorruptRecord(cookiesFile.recs)
  /\ cookieJar = <<>>

\* ---- SpecRouter: the combined client's push channel under notifications
\* of every category, the three the router knows, one it does not know and
\* one without category, before and after ready.
RouterPushes ==
  { [pushCategory |-> c, sourceUserId |-> "7"] :
      c \in {"new_follower", "private_user_follow_request",
             "direct_v2_pending", "like", None} }
knownCategory(data) ==
  needsUser(data) \/ data.pushCategory = "direct_v2_pending"

InitRouter ==
  InitWith({"combined"}, {"valid"}, {[kind |-> "absent", recs |-> <<>>]},
           {FALSE}, {MaxCapacity})

NextRouter ==
  \/ login
  \/ attemptLogin_session
  \/ login_userinfo
  \/ login_prepopulate(FALSE, <<>>)
  \/ login_iris
  \/ \E t \in Transports : transport_open(t)
  \/ \E t \in Transports : connect_resolved(t)
  \/ \E data \in RouterPushes : onFbns(data)
  \/ \E i \in 1..MaxEvents, fetched \in BOOLEAN, u \in UserPayloads :
       handleFbnsReceive_resume(i, fetched, u)

SpecRouter == InitRouter /\ [][NextRouter]_vars

\* the events a step adds after the first k it adds
addedAfter(k) == SubSeq(emitted', Len(emitted) + k + 1, Len(emitted'))
routerNames == {"newFollower", "followRequest", "pendingRequestNotification"}

\* a push handled live is routed by its category: a known user's event is
\* emitted with the cached user, an unknown user suspends the handler in the
\* fetch, a pending conversation emits the raw notification, and any other
\* category emits nothing after rawFbns, changes no cache and no task list
liveRoute(data) ==
  LET routed == addedAfter(1)
  IN /\ UNCHANGED cacheVars
     /\ UNCHANGED handlerRejections
     /\ UNCHANGED channelLog
     /\ IF needsUser(data) /\ users[data.sourceUserId] # NoObj
          THEN /\ Len(routed) = 1
               /\ routed[1].name = pushEventName(data)
               /\ routed[1].arg = users[data.sourceUserId]
               /\ fbnsTasks' = fbnsTasks
        ELSE IF needsUser(data)
          THEN /\ routed = <<>>
               /\ fbnsTasks' = Append(fbnsTasks, data)
        ELSE IF data.pushCategory = "direct_v2_pending"
          THEN /\ Len(routed) = 1
               /\ routed[1].name = "pendingRequestNotification"
               /\ routed[1].arg = data
               /\ fbnsTasks' = fbnsTasks
        ELSE /\ routed = <<>>
             /\ fbnsTasks' = fbnsTasks

\* the replay routes every buffered push by its category: after 'connected'
\* it emits one raw notification per buffered pending conversation, one
\* event or one suspended fetch per buffered follower push, and nothing for
\* any other category
replayRoute ==
  LET routed == addedAfter(1)
      n(c) == CountPushes(eventsToReplay, c)
  IN /\ UNCHANGED cacheVars
     /\ UNCHANGED handlerRejections
     /\ UNCHANGED channelLog
     /\ CountEmits(routed, {"pendingRequestNotification"})
          = n("direct_v2_pending")
     /\ CountEmits(routed, {"newFollower"})
          + Cardinality({i \in 1..Len(fbnsTasks') :
                          fbnsTasks'[i].pushCategory = "new_follower"})
          = n("new_follower")
     /\ CountEmits(routed, {"followRequest"})
          + Cardinality({i \in 1..Len(fbnsTasks') :
                          fbnsTasks'[i].pushCategory
                            = "private_user_follow_request"})
          = n("private_user_follow_request")
     /\ CountEmits(routed, routerNames) = Len(routed)

\* the handler resumed from a user fetch that returned emits its event
\* with the user now cached
resumedRoute(i) ==
  /\ Len(emitted') = Len(emitted) + 1
  /\ emitted'[Len(emitted')].name = pushEventName(fbnsTasks[i])
  /\ users'[fbnsTasks[i].sourceUserId] # NoObj
  /\ emitted'[Len(emitted')].arg = users'[fbnsTasks[i].sourceUserId]

MessageChannels == {"message", "direct"}
ChannelEvents ==
  { [message |-> <<Payload("m1", "t1", FreshTs)>>, thread |-> None],
    [message |-> <<Payload("m2", "t1", FreshTs)>>, thread |-> None] }

\* ig.realtime emits the event `channel` with data; its listener runs next
realtime_emit(channel, data) ==
  /\ variant = "combined"
  /\ Delivers(rt)
  /\ Len(channelLog) = nEvents
  /\ channelLog' = Append(channelLog, [channel |-> channel, data |-> data])
  /\ UNCHANGED << ready, eventsToReplay, rt, fbns, logoutPc, nEvents,
                  buffered, replayed, msgTasks, fbnsTasks, loginPc,
                  loginError, emitted >>
  /\ UNCHANGED << loginVars, dedupVars, cacheVars, configVars >>
  /\ UNCHANGED handlerRejections
  /\ UNCHANGED extVars

\* the event in flight reaches handleMessageWrapper, the one listener of both
\* channels
emittedToListener(data) ==
  /\ Len(channelLog) = nEvents + 1
  /\ channelLog[Len(channelLog)].data = data

InitChannels ==
  InitWith({"combined"}, {"valid"}, {[kind |-> "absent", recs |-> <<>>]},
           {FALSE}, {1, MaxCapacity})

NextChannels ==
  \/ login
  \/ attemptLogin_session
  \/ login_userinfo
  \/ \E threads \in InboxFeeds : login_prepopulate(TRUE, threads)
  \/ login_iris
  \/ transport_open("rt")
  \/ \E channel \in MessageChannels, data \in ChannelEvents :
       realtime_emit(channel, data)
  \/ \E data \in ChannelEvents :
       emittedToListener(data) /\ handleMessageWrapper(data)
  \/ \E i \in 1..MaxEvents, fetched \in BOOLEAN :
       processMessage_resume(i, fetched, TRUE)

SpecChannels == InitChannels /\ [][NextChannels]_vars

\* the messageCreate events emitted so far for a message identifier
createdFor(id) ==
  Cardinality({i \in 1..Len(emitted) :
                 /\ emitted[i].name = "messageCreate"
                 /\ msgHeap[emitted[i].arg].id = id})
\* the times the identifier was evicted from the dedup window so far
evictionsOf(id) ==
  Cardinality({j \in 1..Len(dedupLog) : id \in EvictedBy(j)})

\* C34: 'message' and 'direct' events share one handler and one dedup
\* window.  Whatever the interleaving of deliveries on the two channels,
\* messageCreate is emitted at most once for a message identifier that has
\* not been evicted from the window: a further messageCreate for it needs a
\* further eviction of it before.
C34_OncePerIdAcrossChannels ==
  \A id \in MsgIds : createdFor(id) <= 1 + evictionsOf(id)

\* C34 witness: one identifier arrived on 'message' and then on 'direct'
\* and the second delivery was filtered; another identifier followed, and
\* one messageCreate per identifier was emitted in the end
C34_Witness ==
  /\ maxProcessedMessageIds = MaxCapacity
  /\ Len(channelLog) = MaxEvents
  /\ channelLog[1].channel = "message"
  /\ channelLog[2].channel = "direct"
  /\ channelLog[1].data = channelLog[2].data
  /\ Len(dedupLog) = MaxEvents
  /\ dedupLog[1].ret
  /\ ~dedupLog[2].ret
  /\ chats["t1"] # NoObj
  /\ dedupLog[2].before = dedupLog[2].after
  /\ msgTasks = <<>>
  /\ \A id \in {"m1", "m2"} : createdFor(id) = 1

\* ---- failing approve and decline (SpecRequests)
\* the call that returns in this step did not succeed remotely: the remote
\* call threw, or the thread id was missing
returnsFailed ==
  /\ Len(requestLog') = Len(requestLog) + 1
  /\ ~returned.ok
requestNames == {"messageRequestApproved", "messageRequestDeclined"}

\* C35: when the remote approve or decline call fails,
\* approveMessageRequest / declineMessageRequest returns false, leaves
\* cache.chats, cache.pendingChats and every chat's pending flag as they
\* were and emits neither messageRequestApproved nor
\* messageRequestDeclined; the same holds for a missing thread id, for
\* which no remote call is made: the call returns at once and no call with
\* a missing thread id is ever suspended in the remote request.
C35_FailureLeavesCaches ==
  /\ [](\A i \in 1..Len(requestTasks) : ~Falsy(requestTasks[i].threadId))
  /\ [][returnsFailed
          => /\ ~returned.ret
             /\ chats' = chats
             /\ pendingChats' = pendingChats
             /\ chatHeap' = chatHeap
             /\ emitted' = emitted
             /\ Falsy(returned.threadId) => requestTasks' = requestTasks]_vars

\* C35 witness: an approve and a decline of a pending chat failed and a
\* call without thread id returned; each returned false, the chat is still
\* pending and in pendingChats, and nothing was announced
C35_Witness ==
  /\ Len(requestLog) = MaxRequests
  /\ \A i \in 1..Len(requestLog) : ~requestLog[i].ok /\ ~requestLog[i].ret
  /\ \E i, j, k \in 1..Len(requestLog) :
       /\ requestLog[i].op = "approve" /\ requestLog[i].threadId = "t1"
       /\ requestLog[j].op = "decline" /\ requestLog[j].threadId = "t1"
       /\ Falsy(requestLog[k].threadId)
  /\ pendingChats["t1"] # NoObj
  /\ chatHeap[pendingChats["t1"]].pending
  /\ CountEmits(emitted, requestNames) = 0

\* ===================================================== rejected login ===
\* ---- SpecReject: login() of both client classes with a valid or an absent
\* session file and no cookie file, every failure login() can meet on its
\* way, and events that arrive on the transports before ready.
InitReject ==
  InitWith({"combined", "lib1"}, {"absent", "valid"},
           {[kind |-> "absent", recs |-> <<>>]}, {FALSE}, {MaxCapacity})

NextReject ==
  \/ login
  \/ attemptLogin_session
  \/ attemptLogin_cookies
  \/ login_session_lib1
  \/ login_cookies_lib1
  \/ login_userinfo
  \/ login_prepopulate(FALSE, <<>>)
  \/ login_save_lib1
  \/ login_iris
  \/ \E t \in Transports : transport_open(t)
  \/ \E t \in Transports : connect_resolved(t)
  \/ \E t \in Transports : connect_rejected(t)
  \/ \E topic \in Topics : onReceive(topic)
  \/ \E data \in Pushes : onFbns(data)
  \/ \E channel \in MessageChannels, data \in MessageEvents :
       onMessageLib1(channel, data)

SpecReject == InitReject /\ [][NextReject]_vars

\* C36: whenever login() has rejected, because both restore paths failed,
\* the client-user fetch or the inbox request threw, or a connect was
\* rejected, the ready flag is false, the readiness event ('connected';
\* 'ready' in the alternate client) has not been emitted, and the replay
\* buffer still holds every event buffered so far, none replayed.
C36_RejectedNotReady ==
  loginPc = "rejected"
    => /\ ~ready
       /\ CountEmits(emitted, {"connected", "ready"}) = 0
       /\ replayed = <<>>
       /\ eventsToReplay = buffered

\* C36 witness: the push connect was rejected while the realtime connection
\* was up and had delivered events; the realtime connect resolved
\* afterwards, and the buffered events are still in the buffer
C36_Witness ==
  /\ variant = "combined"
  /\ loginPc = "rejected"
  /\ loginError = "connect"
  /\ fbns = "failed"
  /\ rt = "connected"
  /\ Len(eventsToReplay) = MaxEvents
  /\ \E i \in 1..Len(emitted) : emitted[i].name = "realtimeConnected"

\* ---- the monitor across logout (SpecTeardown)
\* C37 as claimed: messageRequestsPolled is emitted only while the client is
\* ready, so that none is emitted after logout has set ready to false and
\* emitted 'disconnected', also when a monitor callback was suspended in
\* its fetch at the moment logout ran.
C37_AsClaimed ==
  [][emitsInStep("messageRequestsPolled") > 0 => ready]_vars

\* C37: the monitor tests ready when its callback fires, not when the fetch
\* returns.  A callback starts a fetch only while the client is ready, and
\* each fetch started ends with one messageRequestsPolled, whatever ready is
\* by then: a callback suspended in its fetch when logout runs emits after
\* logout has set ready to false, and after 'disconnected' when the fetch
\* returns that late.  Nothing else emits messageRequestsPolled.
C37_ReadyTestedAtTick ==
  [][/\ pollTasks' > pollTasks => (ready /\ pollTasks' = pollTasks + 1)
     /\ \A timer \in 1..MaxTimers :
          (monitor_tick(timer) /\ ~ready) => pollTasks' = pollTasks
     /\ emitsInStep("messageRequestsPolled") > 0
          => /\ emitsInStep("messageRequestsPolled") = 1
             /\ pollTasks' = pollTasks - 1
     /\ pollTasks' < pollTasks
          => emitsInStep("messageRequestsPolled") = 1]_vars

\* C37 witness: login completed and a monitor callback was suspended in its
\* fetch when logout ran; logout went through and emitted 'disconnected',
\* and then the fetch returned and messageRequestsPolled was emitted, with
\* ready false and the interval cleared
C37_Witness ==
  /\ loginPc = "done"
  /\ logoutPc = "done"
  /\ ~ready
  /\ activeIntervals = {}
  /\ pollTasks = 0
  /\ Len(emitted) >= 2
  /\ emitted[Len(emitted)].name = "messageRequestsPolled"
  /\ emitted[Len(emitted) - 1].name = "disconnected"
  /\ CountEmits(emitted, {"connected"}) = 1
  /\ CountEmits(emitted, {"messageRequestsPolled"}) = 1
====
